---- MODULE Spec2Model ----
(***************************************************************************)
(* MAPopt analysis: the estimation engine of mapopt_analysis/core.         *)
(*                                                                         *)
(* Units.  Time is counted in TimeGrid steps (TIME_STEP_MIN = 1/60 h, one  *)
(* minute).  Pressures are integer mmHg; the smoothed series is kept in     *)
(* units of 1/SavgolDen mmHg so that the Savitzky-Golay filter is exact.    *)
(* Floating-point rounding is not modelled.                                *)
(***************************************************************************)
EXTENDS Integers, Sequences, FiniteSets, TLC

(***************************************************************************)
(* Bounds of the model                                                     *)
(***************************************************************************)
\* longest TimeGrid of a run (grid steps)
MaxGrid == 64
\* largest cpu_count() of the machine
MaxCpu == 2
\* longest TimeGrid of two overlapping runs
MaxOverlapGrid == 2

(***************************************************************************)
(* Program constants (config.py)                                           *)
(***************************************************************************)
MAP_OPT_MIN == 40
MAP_OPT_MAX == 90
SAVGOL_WINDOW == 11
MAX_CORES == 8
CHUNK_SIZE == 25
\* the fallback reports progress when i % 25 == 0
FALLBACK_REPORT_EVERY == 25

\* np.nan: a value outside every range used here; every operator below
\* treats it the way IEEE NaN behaves (comparisons false, arithmetic NaN)
NaN == -999999
IsNaN(x) == x = NaN

\* HISTORY_WINDOWS_HR[0] / TIME_STEP_MIN: _calculate_single_fit returns None
\* while t_now - hist_hr < t[0], so no estimate exists before this many steps
HISTORY_MIN_STEPS == 60

Runs == {1, 2}

Min(a, b) == IF a <= b THEN a ELSE b
Max(a, b) == IF a >= b THEN a ELSE b

(***************************************************************************)
(* Input signals.  A signal is one sample per minute from t0 to t0 + n;    *)
(* prof names the shape of the per-time-point estimates it gives rise to.  *)
(***************************************************************************)
Profiles == {"flat", "drop", "single", "gappy"}

Signals(T0s, Ns) ==
    {d \in [t0 : T0s, n : Ns, prof : Profiles] :
        d.n <= HISTORY_MIN_STEPS => d.prof = "flat"}

\* np.arange(t[0], t[-1], TIME_STEP_MIN): its i-th time, and the whole grid
GridTime(d, i) == d.t0 + (i - 1)
TimeGrid(d) == [i \in 1..d.n |-> GridTime(d, i)]

\* weighted_mapopt of _process_time_point for evaluation time t_now
Estimate(d, t_now) ==
    LET m == t_now - d.t0 IN
    IF m < HISTORY_MIN_STEPS \/ d.prof = "flat" THEN NaN
    ELSE IF d.prof = "drop" THEN (IF m = HISTORY_MIN_STEPS THEN 90 ELSE 45)
    ELSE IF d.prof = "single" THEN (IF m = HISTORY_MIN_STEPS THEN 70 ELSE NaN)
    ELSE (IF m % 2 = 1 THEN NaN ELSE IF m % 4 = 0 THEN 50 ELSE 70)

\* local_fits of _process_time_point: empty exactly when the estimate is NaN
LocalFits(d, t_now) ==
    IF IsNaN(Estimate(d, t_now)) THEN << >>
    ELSE << [mapopt |-> Estimate(d, t_now), t_now |-> t_now] >>

\* _process_time_point(args) -> (k, weighted_mapopt, local_fits).  Every
\* args tuple of a run carries that run's own arrays t, MAP, rSO2: they are
\* the parameter d here instead of a copy in each tuple.
ProcessTimePoint(args, d) ==
    [k |-> args.k,
     weighted_mapopt |-> Estimate(d, args.t_now),
     local_fits |-> LocalFits(d, args.t_now)]

\* _prepare_processing_args: enumerate(self.time_vector)
PrepareArgs(tv) ==
    [i \in 1..Len(tv) |-> [k |-> i - 1, t_now |-> tv[i]]]

(***************************************************************************)
(* SeriesPostProcessor: _post_process_mapopt                               *)
(***************************************************************************)
SetMin(S) == CHOOSE x \in S : \A y \in S : x <= y
SetMax(S) == CHOOSE x \in S : \A y \in S : x >= y

ValidIdx(s) == {i \in 1..Len(s) : ~IsNaN(s[i])}

\* Values the interpolant may take at a missing point.  The library computes
\* it; a trailing gap is extrapolated by the last cubic piece and can leave
\* any range, so the levels reach below MAP_OPT_MIN and above MAP_OPT_MAX.
InterpLevels == {30, 65, 100}

\* scipy's PchipInterpolator needs two data points: with exactly one valid
\* estimate and at least one gap, Series.interpolate(method='pchip') raises
PchipRaises(raw) ==
    /\ Cardinality(ValidIdx(raw)) = 1
    /\ Len(raw) > 1

\* pd.Series(raw).interpolate(method='pchip'), limit_direction 'forward':
\* leading gaps stay NaN, interior gaps take a value between the two
\* neighbouring estimates (the interpolant is shape preserving), trailing
\* gaps are extrapolated.  e is the interpolant's value, drawn by the caller.
PchipInterpolate(raw, e) ==
    LET V == ValidIdx(raw) IN
    IF V = {} \/ V = 1..Len(raw) THEN raw
    ELSE [i \in 1..Len(raw) |->
            IF i \in V THEN raw[i]
            ELSE IF i < SetMin(V) THEN NaN
            ELSE IF i > SetMax(V) THEN e
            ELSE LET lo == raw[SetMax({j \in V : j < i})]
                     hi == raw[SetMin({j \in V : j > i})]
                 IN  Max(Min(lo, hi), Min(e, Max(lo, hi)))]

\* np.clip(x, MAP_OPT_MIN, MAP_OPT_MAX); NaN stays NaN
Clip(x) == IF IsNaN(x) THEN NaN ELSE Min(Max(x, MAP_OPT_MIN), MAP_OPT_MAX)
ClipSeries(s) == [i \in 1..Len(s) |-> Clip(s[i])]

\* Series.ffill(): the last valid value at or before i
FFill(s) ==
    [i \in 1..Len(s) |->
        LET B == {j \in ValidIdx(s) : j <= i} IN
        IF B = {} THEN NaN ELSE s[SetMax(B)]]

\* Series.bfill(): the first valid value at or after i
BFill(s) ==
    [i \in 1..Len(s) |->
        LET A == {j \in ValidIdx(s) : j >= i} IN
        IF A = {} THEN NaN ELSE s[SetMin(A)]]

\* scipy.signal.savgol_filter(x, 11, 3), mode 'interp': row r of SavgolHat
\* over SavgolDen is the least-squares cubic through 11 points evaluated at
\* the r-th of them.  Row 6 is the filter itself (-36 9 44 69 84 89 ... /429).
SavgolDen == 858
SavgolHat ==
    << << 678,  288,   48,  -72, -102,  -72,  -12,   48,   78,   48,  -72 >>,
       << 288,  246,  192,  132,   72,   18,  -24,  -48,  -48,  -18,   48 >>,
       <<  48,  192,  246,  232,  172,   88,    2,  -64,  -88,  -48,   78 >>,
       << -72,  132,  232,  251,  212,  138,   52,  -23,  -64,  -48,   48 >>,
       << -102,  72,  172,  212,  206,  168,  112,   52,    2,  -24,  -12 >>,
       << -72,   18,   88,  138,  168,  178,  168,  138,   88,   18,  -72 >>,
       << -12,  -24,    2,   52,  112,  168,  206,  212,  172,   72, -102 >>,
       <<  48,  -48,  -64,  -23,   52,  138,  212,  251,  232,  132,  -72 >>,
       <<  78,  -48,  -88,  -64,    2,   88,  172,  232,  246,  192,   48 >>,
       <<  48,  -18,  -48,  -48,  -24,   18,   72,  132,  192,  246,  288 >>,
       << -72,   48,   78,   48,  -12,  -72, -102,  -72,   48,  288,  678 >> >>

RECURSIVE Dot(_, _, _, _)
\* sum over j = 1..m of row[j] * s[off + j]
Dot(row, s, off, m) ==
    IF m = 0 THEN 0 ELSE Dot(row, s, off, m - 1) + row[m] * s[off + m]

\* one output sample of the filter, in units of 1/SavgolDen mmHg
SavgolAt(s, i) ==
    LET n == Len(s)
        half == SAVGOL_WINDOW \div 2
        off == IF i <= half THEN 0
               ELSE IF i > n - half THEN n - SAVGOL_WINDOW
               ELSE i - half - 1
    IN  IF \E j \in 1..SAVGOL_WINDOW : IsNaN(s[off + j]) THEN NaN
        ELSE Dot(SavgolHat[i - off], s, off, SAVGOL_WINDOW)

\* the filter is applied only to series longer than the window; the result
\* is in units of 1/SavgolDen mmHg either way
Smooth(s) ==
    IF Len(s) > SAVGOL_WINDOW
    THEN [i \in 1..Len(s) |-> SavgolAt(s, i)]
    ELSE [i \in 1..Len(s) |-> IF IsNaN(s[i]) THEN NaN ELSE SavgolDen * s[i]]

\* _post_process_mapopt when the interpolation does not raise
PostProcess(raw, e) ==
    Smooth(BFill(FFill(ClipSeries(PchipInterpolate(raw, e)))))

(***************************************************************************)
(* State                                                                   *)
(***************************************************************************)
VARIABLES
    self,   \* the MAPoptCalculator shared by every run: time_vector,
            \* mapopt_series, mapopt_filled, all_fits_data
    run,    \* per run (analysis thread): its position pc, its input data and
            \* the locals of calculate_mapopt_series / _process_parallel
    cpu,    \* cpu_count() of the machine
    fit,    \* one _calculate_single_fit attempt: its position, the values it
            \* has computed so far and its result
    point,  \* one _process_time_point call: its position in the sweep of the
            \* (window, history) combinations, its accumulators and its result
    burden, \* one BurdenCalculator: its stored arrays, and the queries made
    fisher, \* one correlation value taken through fisher_transform and back
    collect, \* one (window, history) combination at one evaluation time: the
            \* sliding-window collection and what _calculate_single_fit makes of it
    binned, \* one call of bin_correlations followed by fisher_transform
    weighing, \* two calls of _calculate_weight with the same R2
    overtime \* one call of calculate_burden_over_time: its loop and its lists

vars == << self, run, cpu, fit, point, burden, fisher, collect, binned, weighing, overtime >>

\* ParallelScheduler helpers ------------------------------------------------

\* total_chunks = len(args_list) // CHUNK_SIZE + 1
TotalChunks(n) == n \div CHUNK_SIZE + 1

\* num_cores = min(cpu_count(), MAX_CORES)
NumCores(c) == Min(c, MAX_CORES)

\* a variant that divides the chunk count by the chunks done
PoolProgressInverted(chunk_idx, total_chunks) == << total_chunks * 100, chunk_idx + 1 >>

\* progress_pct = ((chunk_idx + 1) / total_chunks) * 100, as << num, den >>
PoolProgress(chunk_idx, total_chunks) == << (chunk_idx + 1) * 100, total_chunks >>

\* progress_pct = (i / len(args_list)) * 100, as << num, den >>
FallbackProgress(i, n) == << i * 100, n >>

\* a variant that stores a result by its position within its chunk
SlotByChunkPosition(res, pos) == ((pos - 1) % CHUNK_SIZE) + 1

\* the slot a result is stored in: mapopt_series[k], numbered from 1 here;
\* pos is the position of the result's arguments in args_list
Slot(res, pos) == res.k + 1

\* Storing results rs (a function from positions of args_list to results) in
\* increasing position: the first position whose slot lies outside either
\* array raises IndexError; 0 when every store succeeds
FirstFail(rs, lenS, lenF) ==
    LET bad == {p \in DOMAIN rs : Slot(rs[p], p) > lenS \/ Slot(rs[p], p) > lenF}
    IN  IF bad = {} THEN 0 ELSE SetMin(bad)

\* the positions whose store into an array of length len took effect
Written(rs, lenS, lenF, len) ==
    LET f == FirstFail(rs, lenS, lenF) IN
    {p \in DOMAIN rs : /\ Slot(rs[p], p) <= len
                       /\ \/ f = 0
                          \/ p < f
                          \/ (p = f /\ len = lenS /\ Slot(rs[p], p) <= lenS)}

\* array arr after the stores of positions W, each storing the named field
\* of its result
StoreInto(arr, rs, W, field) ==
    [s \in 1..Len(arr) |->
        LET here == {p \in W : Slot(rs[p], p) = s} IN
        IF here = {} THEN arr[s] ELSE rs[SetMax(here)][field]]

NoRun ==
    [pc |-> "off", data |-> [t0 |-> 0, n |-> 0, prof |-> "flat"],
     args_list |-> << >>, mapopt_series |-> << >>, all_fits_data |-> << >>,
     slot_src |-> << >>, num_cores |-> 0, total_chunks |-> 0, chunk_idx |-> 0,
     taken |-> 0, inflight |-> {}, results |-> << >>, i |-> 0,
     path |-> "none", fail_pc |-> "none", progress |-> << >>, ret |-> << >>]

NewRun(d) == [NoRun EXCEPT !.pc = "idle", !.data = d]

NoSelf ==
    [time_vector |-> << >>, mapopt_series |-> << >>,
     mapopt_filled |-> << >>, all_fits_data |-> << >>]

Set(r, rec) == run' = [run EXCEPT ![r] = rec]

(***************************************************************************)
(* Actions: one analysis run r (MAPoptAnalysisGUI.run_analysis thread)      *)
(***************************************************************************)

\* start_analysis: threading.Thread(target=self.run_analysis).start()
StartAnalysis(r) ==
    /\ run[r].pc = "idle"
    /\ Set(r, [run[r] EXCEPT !.pc = "L49"])
    /\ UNCHANGED << self, cpu, fit, point, burden, fisher, collect, binned, weighing, overtime >>

\* calculate_mapopt_series, line 49: self.time_vector = np.arange(...)
SetTimeVector(r) ==
    /\ run[r].pc = "L49"
    /\ self' = [self EXCEPT !.time_vector = TimeGrid(run[r].data)]
    /\ Set(r, [run[r] EXCEPT !.pc = "L52"])
    /\ UNCHANGED << cpu, fit, point, burden, fisher, collect, binned, weighing, overtime >>

\* line 52: args_list = self._prepare_processing_args(t, MAP, rSO2)
PrepareProcessingArgs(r) ==
    /\ run[r].pc = "L52"
    /\ Set(r, [run[r] EXCEPT !.pc = "L90",
                             !.args_list = PrepareArgs(self.time_vector)])
    /\ UNCHANGED << self, cpu, fit, point, burden, fisher, collect, binned, weighing, overtime >>

\* _process_parallel, line 90: np.full(len(self.time_vector), np.nan)
AllocSeries(r) ==
    /\ run[r].pc = "L90"
    /\ Set(r, [run[r] EXCEPT
            !.pc = "L91",
            !.mapopt_series = [s \in 1..Len(self.time_vector) |-> NaN],
            !.slot_src = [s \in 1..Len(self.time_vector) |-> {}]])
    /\ UNCHANGED << self, cpu, fit, point, burden, fisher, collect, binned, weighing, overtime >>

\* lines 91-97: all_fits_data, num_cores, total_chunks
AllocFits(r) ==
    /\ run[r].pc = "L91"
    /\ Set(r, [run[r] EXCEPT
            !.pc = "L99",
            !.all_fits_data = [s \in 1..Len(self.time_vector) |-> << >>],
            !.num_cores = NumCores(cpu),
            !.total_chunks = TotalChunks(Len(run[r].args_list))])
    /\ UNCHANGED << self, cpu, fit, point, burden, fisher, collect, binned, weighing, overtime >>

\* line 99: with Pool(processes=num_cores) as pool
CreatePool(r) ==
    /\ run[r].pc = "L99"
    /\ Set(r, [run[r] EXCEPT !.pc = "L100", !.path = "pool", !.chunk_idx = 0])
    /\ UNCHANGED << self, cpu, fit, point, burden, fisher, collect, binned, weighing, overtime >>

\* a variant whose except clause only reports and recomputes nothing
EnterFallbackSkipLoop(rec) ==
    [rec EXCEPT !.pc = "L124", !.path = "fallback", !.fail_pc = rec.pc,
                !.i = Len(rec.args_list),
                !.taken = 0, !.inflight = {}, !.results = << >>]

\* the except clause of line 122 is entered: i = 0 of the fallback loop
EnterFallback(rec) ==
    [rec EXCEPT !.pc = "L124", !.path = "fallback", !.fail_pc = rec.pc, !.i = 0,
                !.taken = 0, !.inflight = {}, !.results = << >>]

\* Pool(...) or pool.map(...) raises: pool creation or a dispatch fails
PoolFailure(r) ==
    /\ run[r].pc \in {"L99", "L110"}
    /\ Set(r, EnterFallback(run[r]))
    /\ UNCHANGED << self, cpu, fit, point, burden, fisher, collect, binned, weighing, overtime >>

\* a variant whose slices stop one short of the end of args_list
ChunkPositionsDropLast(chunk_idx, n) ==
    (chunk_idx * CHUNK_SIZE + 1) .. Min((chunk_idx + 1) * CHUNK_SIZE, n - 1)

\* positions of args_list in chunk chunk_idx: args_list[start_idx:end_idx]
ChunkPositions(chunk_idx, n) ==
    (chunk_idx * CHUNK_SIZE + 1) .. Min((chunk_idx + 1) * CHUNK_SIZE, n)

\* lines 100-107: the head of the chunk loop
NextChunk(r) ==
    LET n == Len(run[r].args_list) IN
    /\ run[r].pc = "L100"
    /\ IF run[r].chunk_idx < run[r].total_chunks /\ run[r].chunk_idx * CHUNK_SIZE < n
       THEN Set(r, [run[r] EXCEPT !.pc = "L110", !.taken = 0,
                                  !.inflight = {}, !.results = << >>])
       ELSE \* range exhausted or break: the pool is closed, line 133 returns
            Set(r, [run[r] EXCEPT !.pc = "L60"])
    /\ UNCHANGED << self, cpu, fit, point, burden, fisher, collect, binned, weighing, overtime >>

\* a pool worker takes the next task of the chunk
WorkerTake(r) ==
    LET C == ChunkPositions(run[r].chunk_idx, Len(run[r].args_list)) IN
    /\ run[r].pc = "L110"
    /\ Cardinality(run[r].inflight) < run[r].num_cores
    /\ run[r].taken < Cardinality(C)
    /\ Set(r, [run[r] EXCEPT
            !.taken = @ + 1,
            !.inflight = @ \cup {SetMin(C) + run[r].taken}])
    /\ UNCHANGED << self, cpu, fit, point, burden, fisher, collect, binned, weighing, overtime >>

\* a pool worker finishes _process_time_point for the task at position p
WorkerFinish(r) ==
    /\ run[r].pc = "L110"
    /\ \E p \in run[r].inflight :
          Set(r, [run[r] EXCEPT
              !.inflight = @ \ {p},
              !.results = [q \in DOMAIN @ \cup {p} |->
                              IF q = p THEN ProcessTimePoint(run[r].args_list[p], run[r].data)
                              ELSE @[q]]])
    /\ UNCHANGED << self, cpu, fit, point, burden, fisher, collect, binned, weighing, overtime >>

\* the stores of results rs into the two output arrays of rec
Stored(rec, rs) ==
    LET lenS == Len(rec.mapopt_series)
        lenF == Len(rec.all_fits_data)
        WS == Written(rs, lenS, lenF, lenS)
        WF == Written(rs, lenS, lenF, lenF)
    IN  [rec EXCEPT
            !.mapopt_series = StoreInto(@, rs, WS, "weighted_mapopt"),
            !.all_fits_data = StoreInto(@, rs, WF, "local_fits"),
            !.slot_src = [s \in DOMAIN @ |->
                @[s] \cup {rec.args_list[p].t_now : p \in {q \in WS : Slot(rs[q], q) = s}}]]

\* a variant that stores and reports as soon as the workers are idle, without
\* waiting for every result of the chunk
StoreChunkEarly(r) ==
    LET rs == run[r].results
        st == Stored(run[r], rs)
    IN
    /\ run[r].pc = "L110"
    /\ DOMAIN rs # {}
    /\ run[r].inflight = {}
    /\ IF FirstFail(rs, Len(run[r].mapopt_series), Len(run[r].all_fits_data)) # 0
       THEN Set(r, EnterFallback(st))
       ELSE Set(r, [st EXCEPT
               !.pc = "L100", !.results = << >>,
               !.progress = Append(@, PoolProgress(run[r].chunk_idx, run[r].total_chunks)),
               !.chunk_idx = @ + 1])
    /\ UNCHANGED << self, cpu, fit, point, burden, fisher, collect, binned, weighing, overtime >>

\* lines 110-120: pool.map returns the chunk's results in argument order,
\* they are stored by k and progress is reported
StoreChunk(r) ==
    LET C == ChunkPositions(run[r].chunk_idx, Len(run[r].args_list))
        rs == run[r].results
        st == Stored(run[r], rs)
    IN
    /\ run[r].pc = "L110"
    /\ DOMAIN rs = C
    /\ IF FirstFail(rs, Len(run[r].mapopt_series), Len(run[r].all_fits_data)) # 0
       THEN \* IndexError inside the try block
            Set(r, EnterFallback(st))
       ELSE Set(r, [st EXCEPT
               !.pc = "L100", !.results = << >>,
               !.progress = Append(@, PoolProgress(run[r].chunk_idx, run[r].total_chunks)),
               !.chunk_idx = @ + 1])
    /\ UNCHANGED << self, cpu, fit, point, burden, fisher, collect, binned, weighing, overtime >>

\* lines 124-131: one iteration of the sequential fallback loop
FallbackStep(r) ==
    LET i == run[r].i
        n == Len(run[r].args_list)
        rs == [p \in {i + 1} |-> ProcessTimePoint(run[r].args_list[p], run[r].data)]
        st == Stored(run[r], rs)
    IN
    /\ run[r].pc = "L124"
    /\ i < n
    /\ IF FirstFail(rs, Len(run[r].mapopt_series), Len(run[r].all_fits_data)) # 0
       THEN \* IndexError outside any try block: the run fails
            Set(r, [st EXCEPT !.pc = "raised"])
       ELSE Set(r, [st EXCEPT
               !.i = @ + 1,
               !.progress = IF i % FALLBACK_REPORT_EVERY = 0
                            THEN Append(@, FallbackProgress(i, n)) ELSE @])
    /\ UNCHANGED << self, cpu, fit, point, burden, fisher, collect, binned, weighing, overtime >>

\* the fallback loop is exhausted: line 133 returns
FallbackDone(r) ==
    /\ run[r].pc = "L124"
    /\ run[r].i >= Len(run[r].args_list)
    /\ Set(r, [run[r] EXCEPT !.pc = "L60"])
    /\ UNCHANGED << self, cpu, fit, point, burden, fisher, collect, binned, weighing, overtime >>

\* line 60: self.mapopt_series = mapopt_series
StoreSeries(r) ==
    /\ run[r].pc = "L60"
    /\ self' = [self EXCEPT !.mapopt_series = run[r].mapopt_series]
    /\ Set(r, [run[r] EXCEPT !.pc = "L61"])
    /\ UNCHANGED << cpu, fit, point, burden, fisher, collect, binned, weighing, overtime >>

\* line 61: self.mapopt_filled = self._post_process_mapopt(mapopt_series)
PostProcessSeries(r) ==
    /\ run[r].pc = "L61"
    /\ IF PchipRaises(run[r].mapopt_series)
       THEN /\ Set(r, [run[r] EXCEPT !.pc = "raised"])
            /\ UNCHANGED self
       ELSE /\ \E e \in InterpLevels :
                 self' = [self EXCEPT !.mapopt_filled = PostProcess(run[r].mapopt_series, e)]
            /\ Set(r, [run[r] EXCEPT !.pc = "L62"])
    /\ UNCHANGED << cpu, fit, point, burden, fisher, collect, binned, weighing, overtime >>

\* line 62: self.all_fits_data = all_fits_data
StoreFits(r) ==
    /\ run[r].pc = "L62"
    /\ self' = [self EXCEPT !.all_fits_data = run[r].all_fits_data]
    /\ Set(r, [run[r] EXCEPT !.pc = "L64"])
    /\ UNCHANGED << cpu, fit, point, burden, fisher, collect, binned, weighing, overtime >>

\* line 64: return self.time_vector, self.mapopt_filled, self.all_fits_data
Return(r) ==
    /\ run[r].pc = "L64"
    /\ Set(r, [run[r] EXCEPT
            !.pc = "done",
            !.ret = [time_vector |-> self.time_vector,
                     mapopt_filled |-> self.mapopt_filled,
                     all_fits_data |-> self.all_fits_data]])
    /\ UNCHANGED << self, cpu, fit, point, burden, fisher, collect, binned, weighing, overtime >>

(***************************************************************************)
(* CurveFitEngine and WeightingScheme: _calculate_single_fit,              *)
(* _calculate_weight.                                                      *)
(*                                                                         *)
(* Units.  Pressures of the fit are in half mmHg (bin centres are x.5      *)
(* mmHg); a candidate MAPopt is the exact fraction << num, den >>, den > 0, *)
(* of half mmHg.  R2 and the nadir correlation are in 1/1000; the weight   *)
(* is in 1/3000000, so that (0.3 - nadir) / 0.3 is exact.                  *)
(***************************************************************************)
COX_WINDOWS_MIN == {3, 5, 10, 20, 30, 60, 90, 120}
HISTORY_WINDOWS_HR == {1, 2, 3, 4, 5, 6, 7, 8, 12}

\* MAP_BINS = np.arange(40, 105, 5): 12 bins, MAP_BIN_CENTERS = edge + 2.5
MAP_BIN_COUNT == 12
MAP_BIN_FIRST == 40
MAP_BIN_WIDTH == 5
\* centre of bin i (1..12) in half mmHg
BinCenter(i) == 2 * (MAP_BIN_FIRST + MAP_BIN_WIDTH * (i - 1)) + MAP_BIN_WIDTH

\* COX_WEIGHT_THRESHOLD = 0.3, in 1/1000
COX_WEIGHT_THRESHOLD == 300
\* if len(map_vals) < 5: return None
MIN_OBSERVATIONS == 5
\* if np.sum(valid) >= 3
MIN_VALID_BINS == 3
\* if weight > 1e-6, in 1/3000000
WEIGHT_MIN == 3
\* most correlation observations drawn for one attempt
MaxObs == 6

\* fractions << num, den >> with den > 0
RatLe(x, y) == x[1] * y[2] <= y[1] * x[2]
RatOfInt(n) == << n, 1 >>

\* a variant that leaves the vertex where the parabola puts it
NoClipToSpan(v, lo, hi) == v

\* np.clip(mapopt_theoretical, data_min, data_max)
ClipToSpan(v, lo, hi) ==
    IF ~RatLe(RatOfInt(lo), v) THEN RatOfInt(lo)
    ELSE IF ~RatLe(v, RatOfInt(hi)) THEN RatOfInt(hi)
    ELSE v

\* mapopt_theoretical = -coeffs[1] / (2 * coeffs[0]), for coeffs[0] > 0
Vertex(a, b) == << 0 - b, 2 * a >>

\* a variant without the test of the physiological band
InBandUnchecked(v) == TRUE

\* MAP_OPT_MIN <= mapopt <= MAP_OPT_MAX
InBand(v) ==
    /\ RatLe(RatOfInt(2 * MAP_OPT_MIN), v)
    /\ RatLe(v, RatOfInt(2 * MAP_OPT_MAX))

\* a variant whose negative branch grows with the nadir correlation
CoxWeightRising(nadir_cox) ==
    IF IsNaN(nadir_cox) THEN 0
    ELSE IF nadir_cox < 0 THEN 3 * (1000 + nadir_cox)
    ELSE IF nadir_cox <= COX_WEIGHT_THRESHOLD
         THEN 10 * (COX_WEIGHT_THRESHOLD - nadir_cox)
    ELSE 0

\* cox_weight of _calculate_weight, in 1/3000; a NaN nadir fails both
\* comparisons and falls to the else branch
CoxWeight(nadir_cox) ==
    IF IsNaN(nadir_cox) THEN 0
    ELSE IF nadir_cox < 0 THEN 3 * (0 - nadir_cox)
    ELSE IF nadir_cox <= COX_WEIGHT_THRESHOLD
         THEN 10 * (COX_WEIGHT_THRESHOLD - nadir_cox)
    ELSE 0

\* _calculate_weight: r2 * cox_weight
CalculateWeight(nadir_cox, r2) ==
    IF IsNaN(r2) THEN NaN ELSE r2 * CoxWeight(nadir_cox)

\* a variant that keeps every fit whose weight is not negative
RetainedNonNegative(weight) == ~IsNaN(weight) /\ weight >= 0

\* if weight > 1e-6 (false for NaN)
Retained(weight) == ~IsNaN(weight) /\ weight > WEIGHT_MIN

\* what the library calls of one attempt may return
\* t_now - t[0] in minutes
ElapsedLevels == {HISTORY_MIN_STEPS - 1, HISTORY_MIN_STEPS, 12 * 60}
\* bins with a finite Fisher-transformed mean
ValidBinSets == {1..2, 1..3, 8..12, 10..12, 1..MAP_BIN_COUNT, {2, 5, 11}}
CoeffA == {-1, 0, 1, 2}
CoeffB == {-500, -370, -360, -261, -120}
\* R2 = 1 - SSE / SST in floating point, in 1/1000: when the valid bins hold
\* (nearly) one value SST is 0 or of the size of the rounding error of SSE, so
\* the quotient is NaN, infinite or any positive number and R2 is NaN or
\* below 0; otherwise it lies in [0, 1]
R2Levels == {NaN, -1, 0, 1, 1000}
NadirLevels == {NaN, -999, -1, 0, 299, 300, 301}

NoFit ==
    [pc |-> "off", elapsed |-> 0, win_min |-> 0, hist_hr |-> 0, n_obs |-> 0,
     valid |-> {}, polyfit |-> "none", coeffs |-> << 0, 0 >>,
     mapopt |-> << 0, 1 >>, r2 |-> 0, nadir_cox |-> 0, weight |-> 0, out |-> << >>]

\* return None
FitNone(f) == [f EXCEPT !.pc = "done", !.out = << >>]

\* lines 178-180: t_start = t_now - hist_hr; if t_start < t[0]: return None
FitCheckStart ==
    /\ fit.pc = "L178"
    /\ fit' = IF fit.elapsed - 60 * fit.hist_hr < 0
              THEN FitNone(fit)
              ELSE [fit EXCEPT !.pc = "L183"]
    /\ UNCHANGED << self, run, cpu, point, burden, fisher, collect, binned, weighing, overtime >>

\* lines 183-188: the sliding-window correlations; fewer than 5: return None
FitCorrelations ==
    /\ fit.pc = "L183"
    /\ \E n \in 0..MaxObs :
          fit' = IF n < MIN_OBSERVATIONS
                 THEN FitNone([fit EXCEPT !.n_obs = n])
                 ELSE [fit EXCEPT !.pc = "L191", !.n_obs = n]
    /\ UNCHANGED << self, run, cpu, point, burden, fisher, collect, binned, weighing, overtime >>

\* lines 191-199: binning, Fisher transform, valid bins; fewer than 3: None
FitBin ==
    /\ fit.pc = "L191"
    /\ \E V \in ValidBinSets :
          fit' = IF Cardinality(V) >= MIN_VALID_BINS
                 THEN [fit EXCEPT !.pc = "L200", !.valid = V]
                 ELSE FitNone([fit EXCEPT !.valid = V])
    /\ UNCHANGED << self, run, cpu, point, burden, fisher, collect, binned, weighing, overtime >>

\* lines 200-213: np.polyfit, leading coefficient, vertex, clip, band
FitPolyfit ==
    /\ fit.pc = "L200"
    /\ \/ \* np.polyfit raises: except: pass
          fit' = FitNone([fit EXCEPT !.polyfit = "raised"])
       \/ \E a \in CoeffA, b \in CoeffB :
             LET data_min == SetMin({BinCenter(i) : i \in fit.valid})
                 data_max == SetMax({BinCenter(i) : i \in fit.valid})
                 f == [fit EXCEPT !.polyfit = "ok", !.coeffs = << a, b >>]
                 m == ClipToSpan(Vertex(a, b), data_min, data_max)
             IN  fit' = IF a > 0
                        THEN IF InBand(m)
                             THEN [f EXCEPT !.pc = "L214", !.mapopt = m]
                             ELSE FitNone([f EXCEPT !.mapopt = m])
                        ELSE FitNone(f)
    /\ UNCHANGED << self, run, cpu, point, burden, fisher, collect, binned, weighing, overtime >>

\* lines 214-244: R2, nadir correlation, weight, the retained record
FitWeigh ==
    /\ fit.pc = "L214"
    /\ \E r2 \in R2Levels, nadir \in NadirLevels :
          LET w == CalculateWeight(nadir, r2)
              f == [fit EXCEPT !.r2 = r2, !.nadir_cox = nadir, !.weight = w]
              fit_data == [win_min |-> f.win_min, hist_hr |-> f.hist_hr,
                           valid |-> f.valid, coeffs |-> f.coeffs,
                           mapopt |-> f.mapopt, nadir_cox |-> nadir,
                           r2 |-> r2, weight |-> w]
          IN  fit' = IF Retained(w)
                     THEN [f EXCEPT !.pc = "done", !.out = << fit_data >>]
                     ELSE FitNone(f)
    /\ UNCHANGED << self, run, cpu, point, burden, fisher, collect, binned, weighing, overtime >>

(***************************************************************************)
(* GridSearchWorker: _process_time_point, the sweep of the (window,        *)
(* history) combinations for one evaluation time.                          *)
(***************************************************************************)
\* for cox_win_min in cox_windows_min: for hist_hr in history_windows_hr
WindowList == << 3, 5, 10, 20, 30, 60, 90, 120 >>
HistoryList == << 1, 2, 3, 4, 5, 6, 7, 8, 12 >>
ComboCount == Len(WindowList) * Len(HistoryList)
\* the c-th combination of the nested loops, c in 1..ComboCount
Combo(c) ==
    [win_min |-> WindowList[((c - 1) \div Len(HistoryList)) + 1],
     hist_hr |-> HistoryList[((c - 1) % Len(HistoryList)) + 1]]

\* Shapes of the signal around the evaluation time, by what the library
\* calls of each attempt return for them
PointProfiles == {"silent", "clean", "mixed", "marginal", "edge"}

\* the values the library calls of one attempt return: the number of
\* correlation observations, the valid bins, the coefficients of np.polyfit,
\* R2 and the nadir correlation
Library(prof, cmb) ==
    LET all == 1..MAP_BIN_COUNT
        lib(n, V, a, b, r2, nadir) ==
            [n_obs |-> n, valid |-> V, a |-> a, b |-> b, r2 |-> r2, nadir |-> nadir]
    IN  CASE prof = "silent" -> lib(0, {}, 0, 0, NaN, NaN)
          [] prof = "clean" -> lib(MaxObs, all, 1, -260, 10, -10)
          [] prof = "marginal" ->
                IF cmb.win_min = 3 THEN lib(MaxObs, all, 1, -260, 1000, 301)
                ELSE lib(MaxObs, all, 1, -260, 1, -1)
          [] prof = "edge" ->
                IF cmb.win_min = 3 THEN lib(MaxObs, all, 1, -400, 1, -999)
                ELSE IF cmb.win_min = 5 THEN lib(MaxObs, all, 1, -260, 1000, 300)
                ELSE IF cmb.hist_hr >= 8 THEN lib(MaxObs, 1..3, 1, -160, 2, -999)
                ELSE lib(MaxObs, all, 1, -360, 1, -999)
          [] OTHER ->
                IF cmb.win_min >= 60 THEN lib(MaxObs, all, -1, 260, 1000, -999)
                ELSE IF cmb.hist_hr = 12 THEN lib(MIN_OBSERVATIONS - 1, all, 1, -260, 1000, -999)
                ELSE IF cmb.hist_hr % 2 = 1 THEN lib(MaxObs, 1..3, 1, -260, 2, 0)
                ELSE lib(MaxObs, all, 2, -500, 1, -5)

\* _calculate_single_fit as a function of what its library calls return:
\* << >> for None, << fit_data >> for a retained fit
CalculateSingleFit(elapsed, cmb, lib) ==
    IF elapsed - 60 * cmb.hist_hr < 0 THEN << >>
    ELSE IF lib.n_obs < MIN_OBSERVATIONS THEN << >>
    ELSE IF Cardinality(lib.valid) < MIN_VALID_BINS THEN << >>
    ELSE IF lib.a <= 0 THEN << >>
    ELSE LET data_min == SetMin({BinCenter(i) : i \in lib.valid})
             data_max == SetMax({BinCenter(i) : i \in lib.valid})
             m == ClipToSpan(Vertex(lib.a, lib.b), data_min, data_max)
             w == CalculateWeight(lib.nadir, lib.r2)
         IN  IF InBand(m) /\ Retained(w)
             THEN << [win_min |-> cmb.win_min, hist_hr |-> cmb.hist_hr,
                      valid |-> lib.valid, coeffs |-> << lib.a, lib.b >>,
                      mapopt |-> m, nadir_cox |-> lib.nadir,
                      r2 |-> lib.r2, weight |-> w] >>
             ELSE << >>

\* a common denominator of the candidates: a vertex has denominator 2 * a
CandidateDen == 2 * SetMax(CoeffA)
RatScale(m) == m[1] * (CandidateDen \div m[2])

RECURSIVE SumProducts(_, _, _)
\* np.sum(np.array(mapopts) * np.array(weights)) over the first n entries
SumProducts(ms, ws, n) ==
    IF n = 0 THEN 0 ELSE SumProducts(ms, ws, n - 1) + RatScale(ms[n]) * ws[n]

RECURSIVE SumSeq(_, _)
\* np.sum(weights) over the first n entries
SumSeq(ws, n) == IF n = 0 THEN 0 ELSE SumSeq(ws, n - 1) + ws[n]

\* a variant that averages the candidates without their weights
UnweightedMean(ms, ws) ==
    << SumProducts(ms, [i \in 1..Len(ms) |-> 1], Len(ms)), CandidateDen * Len(ms) >>

\* np.sum(mapopts * weights) / np.sum(weights), as << num, den >> half mmHg
WeightedMean(ms, ws) ==
    << SumProducts(ms, ws, Len(ms)), CandidateDen * SumSeq(ws, Len(ws)) >>

\* np.nan as a returned estimate
NaNRat == << NaN, 1 >>
IsNaNRat(v) == IsNaN(v[1])

NoPoint ==
    [pc |-> "off", k |-> 0, elapsed |-> 0, prof |-> "silent", c |-> 0,
     mapopts |-> << >>, weights |-> << >>, local_fits |-> << >>,
     ret |-> [k |-> 0, weighted_mapopt |-> NaNRat, local_fits |-> << >>]]

\* lines 145-158: one iteration of the nested loops
PointSweep ==
    /\ point.pc = "L145"
    /\ point.c < ComboCount
    /\ LET cmb == Combo(point.c + 1)
           fit_result == CalculateSingleFit(point.elapsed, cmb, Library(point.prof, cmb))
       IN  point' = IF fit_result # << >>
                    THEN [point EXCEPT
                            !.c = @ + 1,
                            !.mapopts = Append(@, fit_result[1].mapopt),
                            !.weights = Append(@, fit_result[1].weight),
                            !.local_fits = Append(@, fit_result[1])]
                    ELSE [point EXCEPT !.c = @ + 1]
    /\ UNCHANGED << self, run, cpu, fit, burden, fisher, collect, binned, weighing, overtime >>

\* lines 160-164: the loops are exhausted, the weighted mean is returned
PointReduce ==
    /\ point.pc = "L145"
    /\ point.c = ComboCount
    /\ point' = [point EXCEPT
            !.pc = "done",
            !.ret = IF point.mapopts # << >> /\ Len(point.weights) > 0
                    THEN [k |-> point.k,
                          weighted_mapopt |-> WeightedMean(point.mapopts, point.weights),
                          local_fits |-> point.local_fits]
                    ELSE [k |-> point.k, weighted_mapopt |-> NaNRat, local_fits |-> << >>]]
    /\ UNCHANGED << self, run, cpu, fit, burden, fisher, collect, binned, weighing, overtime >>

(***************************************************************************)
(* BurdenEngine: BurdenCalculator.                                         *)
(*                                                                         *)
(* Units.  Times are in half minutes, so that a query may start or end     *)
(* between two samples of the grid; pressures are integer mmHg; a          *)
(* percentage is the exact fraction << num, den >>, den > 0.  Both         *)
(* trapezoid sums are kept doubled, which their quotient does not see.     *)
(***************************************************************************)
BURDEN_BOUNDS == 5
DEVIATION_MIN == -50
DEVIATION_MAX == 50
\* longest time_vector of a burden calculation
MaxBurdenGrid == 3

\* the time of the i-th grid point: one per minute
SampleTime(i) == 2 * i
BurdenGrid(n) == [i \in 1..n |-> SampleTime(i)]

\* MAP - MAPopt at a grid point: on target, on the edge of the band, above
\* the band, and below it beyond the clip of the deviation
DevLevels == {0, BURDEN_BOUNDS, 15, 0 - 60}

\* a variant with the two branches exchanged
WhereSwapped(c, x, y) == IF c THEN y ELSE x

\* np.where(c, x, y) for one element
Where(c, x, y) == IF c THEN x ELSE y

\* calculate_deviation_and_burden: the arrays it stores, from the MAP
\* interpolated onto the grid and the MapOptSeries
CalculateDeviationAndBurden(map_interp, mapopt_filled) ==
    LET I == 1..Len(mapopt_filled)
        lower == [i \in I |-> mapopt_filled[i] - BURDEN_BOUNDS]
        upper == [i \in I |-> mapopt_filled[i] + BURDEN_BOUNDS]
        above == [i \in I |-> map_interp[i] > upper[i]]
        below == [i \in I |-> map_interp[i] < lower[i]]
    IN  [deviation |-> [i \in I |-> Min(Max(map_interp[i] - mapopt_filled[i],
                                            DEVIATION_MIN), DEVIATION_MAX)],
         lower_bound |-> lower,
         upper_bound |-> upper,
         outside_upper |-> above,
         outside_lower |-> below,
         outside_bounds |-> [i \in I |-> above[i] \/ below[i]],
         excess_above |-> [i \in I |-> Where(above[i], map_interp[i] - upper[i], 0)],
         excess_below |-> [i \in I |-> Where(below[i], lower[i] - map_interp[i], 0)]]

\* t_start_hr = max(t_start_hr, time_vector[0])
ClampStart(tv, t_start_hr) == Max(t_start_hr, tv[1])
\* t_end_hr = min(t_end_hr, time_vector[-1])
ClampEnd(tv, t_end_hr) == Min(t_end_hr, tv[Len(tv)])

\* a variant that selects every sample from the start of the range on
TimeIdxOpenEnded(tv, t_start_hr, t_end_hr) ==
    {i \in 1..Len(tv) : tv[i] >= t_start_hr}

\* a variant that selects the samples on either side of the range
TimeIdxEither(tv, t_start_hr, t_end_hr) ==
    {i \in 1..Len(tv) : tv[i] >= t_start_hr \/ tv[i] <= t_end_hr}

\* time_idx = (time_vector >= t_start_hr) & (time_vector <= t_end_hr)
TimeIdx(tv, t_start_hr, t_end_hr) ==
    {i \in 1..Len(tv) : tv[i] >= t_start_hr /\ tv[i] <= t_end_hr}

RECURSIVE Trapz(_, _, _, _)
\* twice np.trapz(y[lo..hi], tv[lo..hi])
Trapz(y, tv, lo, hi) ==
    IF lo >= hi THEN 0
    ELSE (y[lo] + y[lo + 1]) * (tv[lo + 1] - tv[lo]) + Trapz(y, tv, lo + 1, hi)

ZeroPct == << 0, 1 >>

\* _calculate_area_burden over the selected samples, a run of the grid
CalculateAreaBurden(calc, tv, idx) ==
    LET lo == SetMin(idx)
        hi == SetMax(idx)
        excess == [i \in 1..Len(tv) |-> calc.excess_above[i] + calc.excess_below[i]]
        width == [i \in 1..Len(tv) |-> calc.upper_bound[i] - calc.lower_bound[i]]
        area_outside == Trapz(excess, tv, lo, hi)
        area_safe_zone == Trapz(width, tv, lo, hi)
    IN  IF area_safe_zone > 0 THEN << 100 * area_outside, area_safe_zone >>
        ELSE ZeroPct

\* calculate_burden_metrics on a calculator whose arrays are set and a
\* time_vector that is not empty
CalculateBurdenMetrics(calc, tv, t_start_hr, t_end_hr) ==
    LET s == ClampStart(tv, t_start_hr)
        e == ClampEnd(tv, t_end_hr)
        idx == TimeIdx(tv, s, e)
    IN  IF idx = {}
        THEN [t_start_hr |-> s, t_end_hr |-> e,
              time_burden |-> ZeroPct, area_burden_ratio |-> ZeroPct]
        ELSE [t_start_hr |-> s, t_end_hr |-> e,
              time_burden |-> << 100 * Cardinality({i \in idx : calc.outside_bounds[i]}),
                                 Cardinality(idx) >>,
              area_burden_ratio |-> CalculateAreaBurden(calc, tv, idx)]

RECURSIVE SumTo(_, _)
\* np.sum of the first n entries
SumTo(x, n) == IF n = 0 THEN 0 ELSE SumTo(x, n - 1) + x[n]

\* get_deviation_statistics: the mean as a fraction, the variance (the square
\* of std_deviation) as a fraction, the extremes, and the three percentages
GetDeviationStatistics(calc) ==
    LET d == calc.deviation
        n == Len(d)
        sum == SumTo(d, n)
        squares == SumTo([i \in 1..n |-> d[i] * d[i]], n)
        share(flags) == << 100 * Cardinality({i \in 1..n : flags[i]}), n >>
    IN  [mean_deviation |-> << sum, n >>,
         variance |-> << n * squares - sum * sum, n * n >>,
         max_positive_deviation |-> SetMax({d[i] : i \in 1..n}),
         max_negative_deviation |-> SetMin({d[i] : i \in 1..n}),
         percent_time_above_bounds |-> share(calc.outside_upper),
         percent_time_below_bounds |-> share(calc.outside_lower),
         percent_time_outside_bounds |-> share(calc.outside_bounds)]

RECURSIVE SlidingBurden(_, _, _, _, _)
\* calculate_burden_over_time: the loop from current_time on; window_hours
\* is even, so that the window's centre is a whole number of half minutes
SlidingBurden(calc, tv, current_time, window_hours, step_hours) ==
    IF current_time <= tv[Len(tv)] - window_hours
    THEN << [center |-> current_time + window_hours \div 2,
             time_burden |-> CalculateBurdenMetrics(calc, tv, current_time,
                                 current_time + window_hours).time_burden] >>
         \o SlidingBurden(calc, tv, current_time + step_hours, window_hours, step_hours)
    ELSE << >>

NoQuery == [made |-> FALSE, t_start_hr |-> 0, t_end_hr |-> 0,
            res |-> [t_start_hr |-> 0, t_end_hr |-> 0,
                     time_burden |-> ZeroPct, area_burden_ratio |-> ZeroPct]]

\* __init__: every stored array is None
NoCalc ==
    [deviation |-> << >>, lower_bound |-> << >>, upper_bound |-> << >>,
     outside_upper |-> << >>, outside_lower |-> << >>, outside_bounds |-> << >>,
     excess_above |-> << >>, excess_below |-> << >>]

NoBurden ==
    [pc |-> "off", raised_at |-> "none", raised_by |-> "none", error |-> "none",
     tv |-> << >>, map_interp |-> << >>,
     mapopt_filled |-> << >>, calc |-> NoCalc, last |-> NoQuery,
     repeated |-> FALSE, stats |-> << >>, over |-> << >>]

\* raise ValueError("Must call calculate_deviation_and_burden first")
MustCallFirst == "ValueError: Must call calculate_deviation_and_burden first"

\* the exception of a call on arrays that are set: time_vector[0] of an empty
\* time_vector raises IndexError, np.max of an empty array raises ValueError
EmptySeriesError(op) ==
    IF op = "get_deviation_statistics" THEN "ValueError: zero-size array"
    ELSE "IndexError"

\* an exception leaves the call of method op
BurdenRaise(b, op) ==
    [b EXCEPT !.pc = "raised", !.raised_at = b.pc, !.raised_by = op,
              !.error = IF b.pc = "new" THEN MustCallFirst ELSE EmptySeriesError(op)]

\* calculate_deviation_and_burden(data, time_vector, mapopt_filled)
BurdenSetup ==
    /\ burden.pc = "new"
    /\ burden' = [burden EXCEPT
            !.pc = "ready",
            !.calc = CalculateDeviationAndBurden(burden.map_interp, burden.mapopt_filled)]
    /\ UNCHANGED << self, run, cpu, fit, point, fisher, collect, binned, weighing, overtime >>

\* a variant of the query that keeps its view of the flags
BurdenQueryTrimming(t_start_hr, t_end_hr) ==
    /\ burden.pc = "ready"
    /\ burden.tv # << >>
    /\ LET idx == TimeIdx(burden.tv, ClampStart(burden.tv, t_start_hr),
                          ClampEnd(burden.tv, t_end_hr))
       IN  burden' = [burden EXCEPT
              !.calc.outside_bounds = [i \in DOMAIN @ |-> @[i] /\ i \in idx],
              !.last = [made |-> TRUE, t_start_hr |-> t_start_hr, t_end_hr |-> t_end_hr,
                        res |-> CalculateBurdenMetrics(burden.calc, burden.tv,
                                                       t_start_hr, t_end_hr)],
              !.repeated = FALSE]
    /\ UNCHANGED << self, run, cpu, fit, point, fisher, collect, binned, weighing, overtime >>

\* calculate_burden_metrics(time_vector, t_start_hr, t_end_hr): ValueError
\* before the arrays are set, IndexError on an empty time_vector
BurdenQuery(t_start_hr, t_end_hr) ==
    /\ burden.pc \in {"new", "ready"}
    /\ burden' =
          IF burden.pc = "new" \/ burden.tv = << >>
          THEN BurdenRaise(burden, "calculate_burden_metrics")
          ELSE [burden EXCEPT
                  !.last = [made |-> TRUE, t_start_hr |-> t_start_hr, t_end_hr |-> t_end_hr,
                            res |-> CalculateBurdenMetrics(burden.calc, burden.tv,
                                                           t_start_hr, t_end_hr)],
                  !.repeated = /\ burden.last.made
                               /\ burden.last.t_start_hr = t_start_hr
                               /\ burden.last.t_end_hr = t_end_hr]
    /\ UNCHANGED << self, run, cpu, fit, point, fisher, collect, binned, weighing, overtime >>

\* calculate_burden_over_time(time_vector, window_hours, step_hours)
BurdenOverTime(window_hours, step_hours) ==
    /\ burden.pc \in {"new", "ready"}
    /\ burden' =
          IF burden.pc = "new" \/ burden.tv = << >>
          THEN BurdenRaise(burden, "calculate_burden_over_time")
          ELSE [burden EXCEPT
                  !.over = SlidingBurden(burden.calc, burden.tv, burden.tv[1],
                                         window_hours, step_hours)]
    /\ UNCHANGED << self, run, cpu, fit, point, fisher, collect, binned, weighing, overtime >>

\* a variant that demands the arrays as the two queries do
BurdenStatisticsStrict ==
    /\ burden.pc \in {"new", "ready"}
    /\ burden' =
          IF burden.pc = "new" \/ burden.tv = << >>
          THEN BurdenRaise(burden, "get_deviation_statistics")
          ELSE [burden EXCEPT !.stats = << GetDeviationStatistics(burden.calc) >>]
    /\ UNCHANGED << self, run, cpu, fit, point, fisher, collect, binned, weighing, overtime >>

\* get_deviation_statistics(): {} before the arrays are set; np.max of an
\* empty array raises ValueError
BurdenStatistics ==
    /\ burden.pc \in {"new", "ready"}
    /\ burden' =
          IF burden.pc = "new" THEN [burden EXCEPT !.stats = << >>]
          ELSE IF burden.tv = << >> THEN BurdenRaise(burden, "get_deviation_statistics")
          ELSE [burden EXCEPT !.stats = << GetDeviationStatistics(burden.calc) >>]
    /\ UNCHANGED << self, run, cpu, fit, point, fisher, collect, binned, weighing, overtime >>

(***************************************************************************)
(* FisherStabilizer: fisher_transform, inverse_fisher_transform.           *)
(*                                                                         *)
(* Units.  A correlation is in 1/1000.  A transformed value                *)
(* 0.5 * log(x) is kept as the exact fraction x = << num, den >> under the *)
(* logarithm; den = 0 stands for log(+inf).  A value on the correlation    *)
(* scale that comes back is the exact fraction << num, den >> of 1.        *)
(***************************************************************************)
\* FISHER_BOUNDS = 0.999
FISHER_BOUNDS == 999
\* the number 1 of "1 + r_clipped" and "1 - r_clipped"
Unit == 1000
\* how far beyond [-1, 1] the values handed to fisher_transform reach
MaxBeyondUnit == 20

\* a variant that takes the logarithm without clipping
FisherTransformUnclipped(r) ==
    IF IsNaN(r) THEN NaNRat ELSE << Unit + r, Unit - r >>

\* np.clip(r, -FISHER_BOUNDS, FISHER_BOUNDS), then
\* 0.5 * np.log((1 + r_clipped) / (1 - r_clipped)); NaN stays NaN
FisherTransform(r) ==
    IF IsNaN(r) THEN NaNRat
    ELSE LET r_clipped == Min(Max(r, 0 - FISHER_BOUNDS), FISHER_BOUNDS)
         IN  << Unit + r_clipped, Unit - r_clipped >>

\* np.tanh(z) for z = 0.5 * log(num / den):
\* (exp(2z) - 1) / (exp(2z) + 1) = (num - den) / (num + den)
InverseFisherTransform(z) ==
    IF IsNaNRat(z) THEN NaNRat ELSE << z[1] - z[2], z[1] + z[2] >>

\* the values handed to fisher_transform
FisherInputs == ((0 - Unit - MaxBeyondUnit)..(Unit + MaxBeyondUnit)) \cup {NaN}

NoFisher == [pc |-> "off", r |-> 0, z |-> NaNRat, back |-> NaNRat]

\* z = SignalProcessor.fisher_transform(r)
FisherForward ==
    /\ fisher.pc = "r"
    /\ fisher' = [fisher EXCEPT !.pc = "z", !.z = FisherTransform(fisher.r)]
    /\ UNCHANGED << self, run, cpu, fit, point, burden, collect, binned, weighing, overtime >>

\* SignalProcessor.inverse_fisher_transform(z)
FisherInverse ==
    /\ fisher.pc = "z"
    /\ fisher' = [fisher EXCEPT !.pc = "back", !.back = InverseFisherTransform(fisher.z)]
    /\ UNCHANGED << self, run, cpu, fit, point, burden, collect, binned, weighing, overtime >>

(***************************************************************************)
(* CorrelationEngine: calculate_sliding_window_correlations, and lines     *)
(* 178-188 of _calculate_single_fit that call it.                          *)
(*                                                                         *)
(* Units.  Times are in ticks of a quarter minute, so that half of the     *)
(* shortest window (1.5 min) is a whole number of ticks; t[0] is tick 0.    *)
(* The comparisons of sample times with window edges are exact here.       *)
(***************************************************************************)
TicksPerMinute == 4
\* MIN_DATA_POINTS = 10
MIN_DATA_POINTS == 10
\* MIN_CORRELATION_POINTS = 3
MIN_CORRELATION_POINTS == 3
\* if np.sum(idx) < 60
MIN_LOOKBACK_SAMPLES == 60

\* win_hr and hist_hr in ticks
WinTicks(win_min) == TicksPerMinute * win_min
HistTicks(hist_hr) == TicksPerMinute * 60 * hist_hr

\* int(x / y) for y > 0: Python's int() truncates towards zero
Trunc(x, y) == IF x >= 0 THEN x \div y ELSE 0 - ((0 - x) \div y)

\* a variant that steps by a quarter of the window
StepSizeQuarter(win_min) == WinTicks(win_min) \div 4

\* step_size = win_hr / 2
StepSize(win_min) == WinTicks(win_min) \div 2

\* (hist_hr - win_hr) / step_size is evaluated in binary floating point with
\* win_hr = cox_win_min / 60: for the 3-minute window and 1 or 12 hours of
\* history the quotient (0.95 / 0.025, 11.95 / 0.025) comes out just below the
\* whole number 38 resp. 478 and int() returns one less; for every other
\* combination of the parameter grid the truncation is that of the exact value
FloatShortfall(win_min, hist_hr) ==
    IF win_min = 3 /\ hist_hr \in {1, 12} THEN 1 ELSE 0

\* num_steps = int((hist_hr - win_hr) / step_size) + 1
NumSteps(win_min, hist_hr) ==
    Trunc(HistTicks(hist_hr) - WinTicks(win_min), StepSize(win_min))
        - FloatShortfall(win_min, hist_hr) + 1

\* The signal around the evaluation time: one sample every period ticks from
\* t[0] on; a dropout is a stretch without samples ("recent": the last 30
\* minutes before t_now, "old": everything between t[0] and 50 minutes before
\* t_now); in a flat stretch MAP is constant ("all": everywhere, "early": up
\* to 45 minutes before t_now), which leaves the correlation undefined
CollectSignals ==
    [period : {1, TicksPerMinute}, dropout : {"none", "recent", "old"},
     flat : {"none", "all", "early"}]

\* the smallest k with k * p >= x, for x >= 0
CeilDiv(x, p) == (x + p - 1) \div p

\* sample times k * period within [a, b), dropouts not considered
Multiples(a, b, period) ==
    IF b <= a THEN 0 ELSE CeilDiv(b, period) - CeilDiv(Max(a, 0), period)

\* the stretch [lo, hi) of the dropout of signal sig
DropoutSpan(sig, t_now) ==
    CASE sig.dropout = "recent" -> << t_now - 30 * TicksPerMinute, t_now >>
      [] sig.dropout = "old" -> << 1, t_now - 50 * TicksPerMinute >>
      [] OTHER -> << 0, 0 >>

\* np.sum((time >= a) & (time < b)) for the signal sig
SamplesIn(sig, t_now, a, b) ==
    LET d == DropoutSpan(sig, t_now) IN
    Multiples(a, b, sig.period) - Multiples(Max(a, d[1]), Min(b, d[2]), sig.period)

\* fast_correlation returns a number: at least MIN_CORRELATION_POINTS finite
\* pairs, and MAP not constant over the sub-window
CorrelationDefined(sig, t_now, a, b) ==
    /\ SamplesIn(sig, t_now, a, b) >= MIN_CORRELATION_POINTS
    /\ CASE sig.flat = "all" -> FALSE
         [] sig.flat = "early" ->
               SamplesIn(sig, t_now, Max(a, t_now - 45 * TicksPerMinute), b) >= 1
         [] OTHER -> TRUE

\* the sub-window of step s, restricted to the segment [t_start, t_now)
SubWindow(t_now, win_min, hist_hr, s) ==
    LET win_start == t_now - HistTicks(hist_hr) + s * StepSize(win_min)
        win_end == win_start + WinTicks(win_min)
    IN  << win_start, Min(win_end, t_now) >>

\* a variant that takes a sub-window with any sample at all
EnoughSamplesAny(n) == n >= 1

\* not (np.sum(win_idx) < MIN_DATA_POINTS), and len(map_win) > 1
EnoughSamples(n) == n >= MIN_DATA_POINTS /\ n > 1

\* lines 161-185: the steps whose sub-window appends an observation, in the
\* order of the loop; cox_vals and map_vals hold one entry for each
CollectedSteps(sig, t_now, win_min, hist_hr) ==
    {s \in 0..(NumSteps(win_min, hist_hr) - 1) :
        LET sw == SubWindow(t_now, win_min, hist_hr, s) IN
        /\ EnoughSamples(SamplesIn(sig, t_now, sw[1], sw[2]))
        /\ CorrelationDefined(sig, t_now, sw[1], sw[2])}

NoCollect ==
    [pc |-> "off", elapsed |-> 0, win_min |-> 0, hist_hr |-> 0,
     sig |-> [period |-> 1, dropout |-> "none", flat |-> "none"],
     n_lookback |-> 0, steps |-> {}, out |-> << >>]

\* return None
CollectNone(c) == [c EXCEPT !.pc = "done", !.out = << >>]

\* the evaluation time in ticks: t[0] is tick 0
CollectNow(c) == TicksPerMinute * c.elapsed

\* _calculate_single_fit lines 178-180: if t_start < t[0]: return None
CollectCheckStart ==
    /\ collect.pc = "L178"
    /\ collect' = IF CollectNow(collect) - HistTicks(collect.hist_hr) < 0
                  THEN CollectNone(collect)
                  ELSE [collect EXCEPT !.pc = "L153"]
    /\ UNCHANGED << self, run, cpu, fit, point, burden, fisher, binned, weighing, overtime >>

\* calculate_sliding_window_correlations lines 150-155: the segment of the
\* lookback; fewer than 60 samples return [], [] and line 187 returns None
CollectSegment ==
    /\ collect.pc = "L153"
    /\ LET t_now == CollectNow(collect)
           n == SamplesIn(collect.sig, t_now, t_now - HistTicks(collect.hist_hr), t_now)
       IN  collect' = IF n < MIN_LOOKBACK_SAMPLES
                      THEN CollectNone([collect EXCEPT !.n_lookback = n])
                      ELSE [collect EXCEPT !.pc = "L164", !.n_lookback = n]
    /\ UNCHANGED << self, run, cpu, fit, point, burden, fisher, binned, weighing, overtime >>

\* lines 164-185, and lines 187-188 of the caller: the loop over the
\* sub-windows; fewer than 5 observations return None
CollectWindows ==
    /\ collect.pc = "L164"
    /\ LET S == CollectedSteps(collect.sig, CollectNow(collect),
                               collect.win_min, collect.hist_hr)
       IN  collect' = IF Cardinality(S) < MIN_OBSERVATIONS
                      THEN CollectNone([collect EXCEPT !.steps = S])
                      ELSE [collect EXCEPT !.pc = "L191", !.steps = S]
    /\ UNCHANGED << self, run, cpu, fit, point, burden, fisher, binned, weighing, overtime >>

\* lines 190-244 for observations that give a clean parabola: the record of
\* the combination
CollectFit ==
    /\ collect.pc = "L191"
    /\ LET cmb == [win_min |-> collect.win_min, hist_hr |-> collect.hist_hr]
           lib == [Library("clean", cmb) EXCEPT !.n_obs = Cardinality(collect.steps)]
       IN  collect' = [collect EXCEPT
              !.pc = "done",
              !.out = CalculateSingleFit(collect.elapsed, cmb, lib)]
    /\ UNCHANGED << self, run, cpu, fit, point, burden, fisher, binned, weighing, overtime >>

(***************************************************************************)
(* BinnedCurve: bin_correlations followed by fisher_transform, lines       *)
(* 190-197 of _calculate_single_fit.                                       *)
(*                                                                         *)
(* Units.  A mean MAP is in integer mmHg, a correlation in 1/1000; the     *)
(* mean of a bin is the exact fraction << sum, count >> of 1/1000; a       *)
(* transformed value is the fraction under the logarithm, as in            *)
(* FisherStabilizer.                                                        *)
(***************************************************************************)
\* bins[b] and bins[b+1] of MAP_BINS for b in 1..MAP_BIN_COUNT, in mmHg
BinLow(b) == MAP_BIN_FIRST + MAP_BIN_WIDTH * (b - 1)
BinHigh(b) == MAP_BIN_FIRST + MAP_BIN_WIDTH * b

\* bin_mask = (map_vals >= bins[b]) & (map_vals < bins[b+1])
BinMask(map_vals, b) ==
    {i \in 1..Len(map_vals) : map_vals[i] >= BinLow(b) /\ map_vals[i] < BinHigh(b)}

RECURSIVE SumAt(_, _)
\* the sum of x[i] over the indices i of I
SumAt(x, I) ==
    IF I = {} THEN 0
    ELSE LET i == CHOOSE j \in I : TRUE IN x[i] + SumAt(x, I \ {i})

\* bin_correlations: NaN everywhere for fewer than 5 observations, else per
\* bin np.mean(cox_vals[bin_mask]), NaN for a bin without observation
BinCorrelations(cox_vals, map_vals) ==
    [b \in 1..MAP_BIN_COUNT |->
        LET I == BinMask(map_vals, b) IN
        IF Len(cox_vals) < MIN_OBSERVATIONS \/ I = {} THEN NaNRat
        ELSE << SumAt(cox_vals, I), Cardinality(I) >>]

\* fisher_transform of a mean << sum, count >>: np.clip to +-FISHER_BOUNDS,
\* then (1 + r_clipped) / (1 - r_clipped) under the logarithm
FisherTransformMean(q) ==
    IF IsNaNRat(q) THEN NaNRat
    ELSE IF q[1] > FISHER_BOUNDS * q[2] THEN << Unit + FISHER_BOUNDS, Unit - FISHER_BOUNDS >>
    ELSE IF q[1] < (0 - FISHER_BOUNDS) * q[2] THEN << Unit - FISHER_BOUNDS, Unit + FISHER_BOUNDS >>
    ELSE << Unit * q[2] + q[1], Unit * q[2] - q[1] >>

\* observations of one combination: three in the middle bins, then one to
\* three more from BinTail
BinBase == << [map |-> 62, cox |-> 0], [map |-> 67, cox |-> 0 - 500],
              [map |-> 72, cox |-> 500] >>
BinTail ==
    {[map |-> 39, cox |-> 0], [map |-> 40, cox |-> 500], [map |-> 44, cox |-> 0],
     [map |-> 44, cox |-> 0 - 500], [map |-> 45, cox |-> 500], [map |-> 62, cox |-> 500],
     [map |-> 99, cox |-> 0], [map |-> 100, cox |-> 500]}
\* most observations of BinTail in one call
MaxTail == 3

NoBinned ==
    [pc |-> "off", cox_vals |-> << >>, map_vals |-> << >>,
     binned_cox |-> << >>, binned_cox_fisher |-> << >>, valid |-> {}]

\* line 191: binned_cox = SignalProcessor.bin_correlations(cox_vals, map_vals, bins)
BinObservations ==
    /\ binned.pc = "L191"
    /\ binned' = [binned EXCEPT
            !.pc = "L195",
            !.binned_cox = BinCorrelations(binned.cox_vals, binned.map_vals)]
    /\ UNCHANGED << self, run, cpu, fit, point, burden, fisher, collect, weighing, overtime >>

\* lines 194-197: binned_cox_fisher = fisher_transform(binned_cox), and the
\* bins whose value is a finite number
BinFisher ==
    /\ binned.pc = "L195"
    /\ LET z == [b \in 1..MAP_BIN_COUNT |-> FisherTransformMean(binned.binned_cox[b])]
       IN  binned' = [binned EXCEPT
              !.pc = "done",
              !.binned_cox_fisher = z,
              !.valid = {b \in 1..MAP_BIN_COUNT : ~IsNaNRat(z[b]) /\ z[b][2] # 0}]
    /\ UNCHANGED << self, run, cpu, fit, point, burden, fisher, collect, weighing, overtime >>

(***************************************************************************)
(* WeightingScheme, two fits compared: _calculate_weight called for two    *)
(* nadir correlations with the same R2.                                    *)
(***************************************************************************)
\* nadir correlations within [-1, 1], in 1/1000: the ends, the two sides of
\* 0 and of COX_WEIGHT_THRESHOLD, and values inside each branch
WeighNadirs == {0 - 1000, 0 - 500, 0 - 1, 0, 1, 150, 299, 300, 301, 1000}
\* R2 > 0, in 1/1000
WeighR2 == {1, 500, 1000}

NoWeighing == [pc |-> "off", r2 |-> 0, lo |-> 0, hi |-> 0, w_lo |-> 0, w_hi |-> 0]

\* weight = MAPoptCalculator._calculate_weight(nadir_cox, R2), lower nadir
WeighLower ==
    /\ weighing.pc = "lo"
    /\ weighing' = [weighing EXCEPT
            !.pc = "hi", !.w_lo = CalculateWeight(weighing.lo, weighing.r2)]
    /\ UNCHANGED << self, run, cpu, fit, point, burden, fisher, collect, binned, overtime >>

\* weight = MAPoptCalculator._calculate_weight(nadir_cox, R2), higher nadir
WeighHigher ==
    /\ weighing.pc = "hi"
    /\ weighing' = [weighing EXCEPT
            !.pc = "done", !.w_hi = CalculateWeight(weighing.hi, weighing.r2)]
    /\ UNCHANGED << self, run, cpu, fit, point, burden, fisher, collect, binned, overtime >>

(***************************************************************************)
(* BurdenEngine, the loop of calculate_burden_over_time step by step.      *)
(*                                                                         *)
(* Units.  Times are in half minutes as in BurdenEngine; a window centre   *)
(* current_time + window_hours / 2 is kept doubled.  The two lists keep    *)
(* their first MaxWindows entries; more tells that further entries were    *)
(* appended after them.                                                     *)
(***************************************************************************)
\* longest time_vector of a sliding-window sweep
MaxSweepGrid == 3
\* entries of time_centers and burden_values that are kept
MaxWindows == 10
\* MAP - MAPopt at a grid point of a sweep: on target and above the band
SweepDevLevels == {0, 15}
\* window_hours and step_hours handed to the call: the signature takes any
\* float and the body tests neither
SweepWindows == {0 - 2, 0, 2, 6, 20}
SweepSteps == {0, 1, 2, 4}

NoOverTime ==
    [pc |-> "off", set |-> FALSE, tv |-> << >>, calc |-> NoCalc,
     window_hours |-> 0, step_hours |-> 0, end_time |-> 0, current_time |-> 0,
     time_centers |-> << >>, burden_values |-> << >>, more |-> FALSE,
     lap |-> 0, error |-> "none"]

\* list.append within the entries that are kept
AppendKept(list, x) == IF Len(list) < MaxWindows THEN Append(list, x) ELSE list

\* lines 163-172: the test of the arrays, start_time, end_time, the empty
\* lists and current_time = start_time
OverTimeEnter ==
    /\ overtime.pc = "L163"
    /\ overtime' =
          IF ~overtime.set
          THEN [overtime EXCEPT !.pc = "raised", !.error = MustCallFirst]
          ELSE IF overtime.tv = << >>
          THEN [overtime EXCEPT !.pc = "raised",
                                !.error = EmptySeriesError("calculate_burden_over_time")]
          ELSE [overtime EXCEPT
                  !.pc = "L173",
                  !.end_time = overtime.tv[Len(overtime.tv)] - overtime.window_hours,
                  !.current_time = overtime.tv[1]]
    /\ UNCHANGED << self, run, cpu, fit, point, burden, fisher, collect, binned, weighing >>

\* lines 173-185: one iteration of the while loop; lap is the parity of the
\* iterations made, which tells one turn of the loop from the next once the
\* kept entries are full
OverTimeIterate ==
    /\ overtime.pc = "L173"
    /\ overtime.current_time <= overtime.end_time
    /\ LET window_start == overtime.current_time
           window_end == overtime.current_time + overtime.window_hours
           burden_result == CalculateBurdenMetrics(overtime.calc, overtime.tv,
                                                   window_start, window_end)
       IN  overtime' = [overtime EXCEPT
              !.time_centers = AppendKept(@, 2 * overtime.current_time + overtime.window_hours),
              !.burden_values = AppendKept(@, burden_result.time_burden),
              !.more = Len(overtime.time_centers) >= MaxWindows,
              !.lap = (@ + 1) % 2,
              !.current_time = @ + overtime.step_hours]
    /\ UNCHANGED << self, run, cpu, fit, point, burden, fisher, collect, binned, weighing >>

\* line 187: the loop condition fails, the two arrays are returned
OverTimeReturn ==
    /\ overtime.pc = "L173"
    /\ overtime.current_time > overtime.end_time
    /\ overtime' = [overtime EXCEPT !.pc = "done"]
    /\ UNCHANGED << self, run, cpu, fit, point, burden, fisher, collect, binned, weighing >>


(***************************************************************************)
(* Specifications                                                          *)
(***************************************************************************)

\* one analysis on a fresh calculator
Init ==
    /\ self = NoSelf
    /\ cpu \in 1..MaxCpu
    /\ fit = NoFit
    /\ point = NoPoint
    /\ burden = NoBurden
    /\ fisher = NoFisher
    /\ collect = NoCollect
    /\ binned = NoBinned
    /\ weighing = NoWeighing
    /\ overtime = NoOverTime
    /\ \E d \in Signals({0}, 0..MaxGrid) : run = [r \in Runs |-> IF r = 1 THEN NewRun(d) ELSE NoRun]

\* steps of the program itself
Step ==
    \E r \in Runs :
        \/ StartAnalysis(r)
        \/ SetTimeVector(r)
        \/ PrepareProcessingArgs(r)
        \/ AllocSeries(r)
        \/ AllocFits(r)
        \/ CreatePool(r)
        \/ NextChunk(r)
        \/ WorkerTake(r)
        \/ WorkerFinish(r)
        \/ StoreChunk(r)
        \/ FallbackStep(r)
        \/ FallbackDone(r)
        \/ StoreSeries(r)
        \/ PostProcessSeries(r)
        \/ StoreFits(r)
        \/ Return(r)

\* failures of the environment
Fail == \E r \in Runs : PoolFailure(r)

Next == Step \/ Fail

Spec == Init /\ [][Next]_vars

\* grid lengths around the chunk boundaries, for the fair specification
FairGridLengths ==
    {0, 1, CHUNK_SIZE, CHUNK_SIZE + 1, 2 * CHUNK_SIZE, 2 * CHUNK_SIZE + 1, MaxGrid}

InitFair ==
    /\ self = NoSelf
    /\ cpu \in 1..MaxCpu
    /\ fit = NoFit
    /\ point = NoPoint
    /\ burden = NoBurden
    /\ fisher = NoFisher
    /\ collect = NoCollect
    /\ binned = NoBinned
    /\ weighing = NoWeighing
    /\ overtime = NoOverTime
    /\ \E d \in Signals({0}, FairGridLengths) :
          run = [r \in Runs |-> IF r = 1 THEN NewRun(d) ELSE NoRun]

\* the steps of the thread of run r up to the return of _process_parallel
Main(r) ==
    \/ StartAnalysis(r)
    \/ SetTimeVector(r)
    \/ PrepareProcessingArgs(r)
    \/ AllocSeries(r)
    \/ AllocFits(r)
    \/ CreatePool(r)
    \/ NextChunk(r)
    \/ StoreChunk(r)
    \/ FallbackStep(r)
    \/ FallbackDone(r)

\* the steps of the pool's worker processes
Worker(r) == WorkerTake(r) \/ WorkerFinish(r)

\* the thread of a run is not starved and the pool workers run
FairSpec ==
    /\ InitFair /\ [][Next]_vars
    /\ \A r \in Runs : WF_vars(Main(r)) /\ WF_vars(Worker(r))

\* two analyses started on the same calculator (start_analysis has no guard)
InitRuns ==
    /\ self = NoSelf
    /\ cpu \in 1..MaxCpu
    /\ fit = NoFit
    /\ point = NoPoint
    /\ burden = NoBurden
    /\ fisher = NoFisher
    /\ collect = NoCollect
    /\ binned = NoBinned
    /\ weighing = NoWeighing
    /\ overtime = NoOverTime
    /\ \E d1 \in Signals({0}, 1..MaxOverlapGrid), d2 \in Signals({100}, 1..MaxOverlapGrid) :
          run = [r \in Runs |-> IF r = 1 THEN NewRun(d1) ELSE NewRun(d2)]

SpecRuns == InitRuns /\ [][Next]_vars

\* one curve-fit attempt for one (window, history) combination
InitFit ==
    /\ self = NoSelf
    /\ cpu = 1
    /\ run = [r \in Runs |-> NoRun]
    /\ point = NoPoint
    /\ burden = NoBurden
    /\ fisher = NoFisher
    /\ collect = NoCollect
    /\ binned = NoBinned
    /\ weighing = NoWeighing
    /\ overtime = NoOverTime
    /\ \E e \in ElapsedLevels, w \in COX_WINDOWS_MIN, h \in HISTORY_WINDOWS_HR :
          fit = [NoFit EXCEPT !.pc = "L178", !.elapsed = e, !.win_min = w, !.hist_hr = h]

NextFit ==
    \/ FitCheckStart
    \/ FitCorrelations
    \/ FitBin
    \/ FitPolyfit
    \/ FitWeigh

SpecFit == InitFit /\ [][NextFit]_vars

\* one call of _process_time_point
InitPoint ==
    /\ self = NoSelf
    /\ cpu = 1
    /\ run = [r \in Runs |-> NoRun]
    /\ fit = NoFit
    /\ burden = NoBurden
    /\ fisher = NoFisher
    /\ collect = NoCollect
    /\ binned = NoBinned
    /\ weighing = NoWeighing
    /\ overtime = NoOverTime
    /\ \E e \in ElapsedLevels, p \in PointProfiles :
          point = [NoPoint EXCEPT !.pc = "L145", !.elapsed = e, !.prof = p]

NextPoint == PointSweep \/ PointReduce

SpecPoint == InitPoint /\ [][NextPoint]_vars

\* the times a query may start or end at: before the grid, on and between
\* its samples, after it
QueryTimes(n) ==
    {0, 1, SampleTime(1), SampleTime(1) + 1,
     SampleTime(n), SampleTime(n) + 1, SampleTime(n) + 2}
\* window lengths and steps of calculate_burden_over_time
WindowLevels == {2}
StepLevels == {2}

\* a new BurdenCalculator and the series of one finished analysis
InitBurden ==
    /\ self = NoSelf
    /\ cpu = 1
    /\ run = [r \in Runs |-> NoRun]
    /\ fit = NoFit
    /\ point = NoPoint
    /\ fisher = NoFisher
    /\ collect = NoCollect
    /\ binned = NoBinned
    /\ weighing = NoWeighing
    /\ overtime = NoOverTime
    /\ \E n \in 0..MaxBurdenGrid :
          \E dev \in [1..n -> DevLevels] :
              burden = [NoBurden EXCEPT
                           !.pc = "new",
                           !.tv = BurdenGrid(n),
                           !.mapopt_filled = [i \in 1..n |-> MAP_OPT_MIN + 10 * i],
                           !.map_interp = [i \in 1..n |-> MAP_OPT_MIN + 10 * i + dev[i]]]

NextBurden ==
    \/ BurdenSetup
    \/ \E s, e \in QueryTimes(Len(burden.tv)) : BurdenQuery(s, e)
    \/ \E w \in WindowLevels, st \in StepLevels : BurdenOverTime(w, st)
    \/ BurdenStatistics

SpecBurden == InitBurden /\ [][NextBurden]_vars

\* one value taken through the transform and back
InitFisher ==
    /\ self = NoSelf
    /\ cpu = 1
    /\ run = [r \in Runs |-> NoRun]
    /\ fit = NoFit
    /\ point = NoPoint
    /\ burden = NoBurden
    /\ collect = NoCollect
    /\ binned = NoBinned
    /\ weighing = NoWeighing
    /\ overtime = NoOverTime
    /\ \E r \in FisherInputs : fisher = [NoFisher EXCEPT !.pc = "r", !.r = r]

NextFisher == FisherForward \/ FisherInverse

SpecFisher == InitFisher /\ [][NextFisher]_vars

\* t_now - t[0] in minutes: before, at and after the shortest history, and
\* at the longest
CollectElapsed == {HISTORY_MIN_STEPS - 1, HISTORY_MIN_STEPS, 3 * 60, 12 * 60}

\* one (window, history) combination at one evaluation time
InitCollect ==
    /\ self = NoSelf
    /\ cpu = 1
    /\ run = [r \in Runs |-> NoRun]
    /\ fit = NoFit
    /\ point = NoPoint
    /\ burden = NoBurden
    /\ fisher = NoFisher
    /\ binned = NoBinned
    /\ weighing = NoWeighing
    /\ overtime = NoOverTime
    /\ \E e \in CollectElapsed, c \in 1..ComboCount, sg \in CollectSignals :
          collect = [NoCollect EXCEPT !.pc = "L178", !.elapsed = e, !.sig = sg,
                                      !.win_min = Combo(c).win_min,
                                      !.hist_hr = Combo(c).hist_hr]

NextCollect ==
    \/ CollectCheckStart
    \/ CollectSegment
    \/ CollectWindows
    \/ CollectFit

SpecCollect == InitCollect /\ [][NextCollect]_vars

\* the observations of one combination, binned and transformed
InitBinned ==
    /\ self = NoSelf
    /\ cpu = 1
    /\ run = [r \in Runs |-> NoRun]
    /\ fit = NoFit
    /\ point = NoPoint
    /\ burden = NoBurden
    /\ fisher = NoFisher
    /\ collect = NoCollect
    /\ weighing = NoWeighing
    /\ overtime = NoOverTime
    /\ \E n \in 1..MaxTail :
          \E tl \in [1..n -> BinTail] :
              LET obs == BinBase \o tl IN
              binned = [NoBinned EXCEPT
                           !.pc = "L191",
                           !.cox_vals = [i \in 1..Len(obs) |-> obs[i].cox],
                           !.map_vals = [i \in 1..Len(obs) |-> obs[i].map]]

NextBinned == BinObservations \/ BinFisher

SpecBinned == InitBinned /\ [][NextBinned]_vars

\* two fits with the same R2 > 0 and nadir correlations lo <= hi
InitWeighing ==
    /\ self = NoSelf
    /\ cpu = 1
    /\ run = [r \in Runs |-> NoRun]
    /\ fit = NoFit
    /\ point = NoPoint
    /\ burden = NoBurden
    /\ fisher = NoFisher
    /\ collect = NoCollect
    /\ binned = NoBinned
    /\ overtime = NoOverTime
    /\ \E r2 \in WeighR2, lo \in WeighNadirs, hi \in WeighNadirs :
          /\ lo <= hi
          /\ weighing = [NoWeighing EXCEPT !.pc = "lo", !.r2 = r2, !.lo = lo, !.hi = hi]

NextWeighing == WeighLower \/ WeighHigher

SpecWeighing == InitWeighing /\ [][NextWeighing]_vars

\* one call of calculate_burden_over_time, on a new calculator or on one
\* whose arrays are set
InitOverTime ==
    /\ self = NoSelf
    /\ cpu = 1
    /\ run = [r \in Runs |-> NoRun]
    /\ fit = NoFit
    /\ point = NoPoint
    /\ burden = NoBurden
    /\ fisher = NoFisher
    /\ collect = NoCollect
    /\ binned = NoBinned
    /\ weighing = NoWeighing
    /\ \E n \in 0..MaxSweepGrid, w \in SweepWindows, st \in SweepSteps, set \in BOOLEAN :
          \E dev \in [1..n -> SweepDevLevels] :
              LET mapopt_filled == [i \in 1..n |-> MAP_OPT_MIN + 10 * i]
                  map_interp == [i \in 1..n |-> MAP_OPT_MIN + 10 * i + dev[i]]
              IN  overtime = [NoOverTime EXCEPT
                      !.pc = "L163", !.set = set, !.tv = BurdenGrid(n),
                      !.calc = IF set THEN CalculateDeviationAndBurden(map_interp, mapopt_filled)
                               ELSE NoCalc,
                      !.window_hours = w, !.step_hours = st]

NextOverTime == OverTimeEnter \/ OverTimeIterate \/ OverTimeReturn

\* the call runs on: the interpreter executes its next statement
SpecOverTime == InitOverTime /\ [][NextOverTime]_vars /\ WF_vars(NextOverTime)

(***************************************************************************)
(* Properties                                                              *)
(***************************************************************************)

\* the raw series and diagnostics of a purely sequential sweep in index order
SequentialSeries(d) == [i \in 1..d.n |-> Estimate(d, GridTime(d, i))]
SequentialFits(d) == [i \in 1..d.n |-> LocalFits(d, GridTime(d, i))]

\* _process_parallel has returned to calculate_mapopt_series
Returned(r) == run[r].pc \in {"L60", "L61", "L62", "L64", "done"}
\* _post_process_mapopt has returned to calculate_mapopt_series
PostProcessed(r) == run[r].pc \in {"L62", "L64", "done"}

HasNaN(s) == \E i \in DOMAIN s : IsNaN(s[i])
HasValid(s) == \E i \in DOMAIN s : ~IsNaN(s[i])

\* C1: post-processing never raises and the MapOptSeries it returns has no
\* NaN at any TimeGrid index, for every raw series, the all-NaN one included.
C1_PostProcessedSeriesHasNoNaN ==
    \A r \in Runs :
        /\ run[r].pc # "raised"
        /\ PostProcessed(r) =>
              /\ Len(self.mapopt_filled) = Len(run[r].mapopt_series)
              /\ ~HasNaN(self.mapopt_filled)

\* C2: for a raw series with at least one valid estimate, every value of the
\* final MapOptSeries lies within [MAP_OPT_MIN, MAP_OPT_MAX].
C2_PostProcessedSeriesWithinClamp ==
    \A r \in Runs :
        (PostProcessed(r) /\ HasValid(run[r].mapopt_series)) =>
            \A i \in DOMAIN self.mapopt_filled :
                /\ self.mapopt_filled[i] >= MAP_OPT_MIN * SavgolDen
                /\ self.mapopt_filled[i] <= MAP_OPT_MAX * SavgolDen

\* C3: every write to raw-series slot k and diagnostics slot k stores the
\* worker result computed for TimeGrid index k, and no two invocations
\* dispatched to the pool target the same slot, whatever the completion order.
C3_SlotWritesMatchIndex ==
    \A r \in Runs :
        LET d == run[r].data
            rec == run[r]
            disp == rec.inflight \cup DOMAIN rec.results
        IN
        /\ \A s \in DOMAIN rec.slot_src : rec.slot_src[s] \subseteq {GridTime(d, s)}
        /\ \A s \in DOMAIN rec.mapopt_series :
              rec.slot_src[s] # {} => rec.mapopt_series[s] = Estimate(d, GridTime(d, s))
        /\ \A s \in DOMAIN rec.all_fits_data :
              rec.all_fits_data[s] \in {<< >>, LocalFits(d, GridTime(d, s))}
        /\ Cardinality({Slot(ProcessTimePoint(rec.args_list[p], d), p) : p \in disp})
              = Cardinality(disp)

\* a second chunk is being mapped, results arrive out of order, and the
\* slots of the first chunk have been written
C3_Witness ==
    /\ run[1].pc = "L110"
    /\ run[1].chunk_idx = 1
    /\ run[1].slot_src[1] # {}
    /\ \E p \in DOMAIN run[1].results : p - 1 \in run[1].inflight

\* C4: once the pool has failed (at creation or at a dispatch after any
\* number of completed chunks), _process_parallel eventually returns with
\* every slot holding the worker result of its index.
C4_PoolFailureRecovered ==
    \A r \in Runs :
        (run[r].pc = "L124") ~>
            (/\ run[r].pc = "L60"
             /\ run[r].mapopt_series = SequentialSeries(run[r].data)
             /\ run[r].all_fits_data = SequentialFits(run[r].data))

\* returned through the fallback after a dispatch failed with two chunks done
C4_Witness ==
    /\ run[1].pc = "L60"
    /\ run[1].fail_pc = "L110"
    /\ run[1].chunk_idx = 2
    /\ HasValid(run[1].mapopt_series)

\* C5: the raw series and the diagnostics returned by _process_parallel are
\* those of a sequential sweep in index order, on every path (pool only, pool
\* failing at creation, pool failing after some chunks) and for every pool size.
C5_ResultIndependentOfPath ==
    \A r \in Runs :
        Returned(r) =>
            /\ run[r].mapopt_series = SequentialSeries(run[r].data)
            /\ run[r].all_fits_data = SequentialFits(run[r].data)

\* a run with valid estimates returned by the pool alone, with two workers
C5_Witness ==
    /\ run[1].pc = "L60"
    /\ run[1].path = "pool"
    /\ run[1].num_cores = 2
    /\ HasValid(run[1].mapopt_series)

\* C6: each run sizes its output from, processes and returns the TimeGrid,
\* series and diagnostics derived from its own input, also when two runs
\* overlap on the same MAPoptCalculator.
C6_RunOwnsItsState ==
    \A r \in Runs :
        LET d == run[r].data
            rec == run[r]
        IN
        /\ rec.pc \notin {"off", "idle", "L49", "L52"} =>
              rec.args_list = PrepareArgs(TimeGrid(d))
        /\ rec.pc \notin {"off", "idle", "L49", "L52", "L90"} =>
              Len(rec.mapopt_series) = d.n
        /\ rec.pc \notin {"off", "idle", "L49", "L52", "L90", "L91"} =>
              Len(rec.all_fits_data) = d.n
        /\ rec.pc = "done" =>
              /\ rec.ret.time_vector = TimeGrid(d)
              /\ \E e \in InterpLevels :
                    rec.ret.mapopt_filled = PostProcess(SequentialSeries(d), e)
              /\ rec.ret.all_fits_data = SequentialFits(d)

\* a progress value << num, den >> is a percentage within [0, 100]
IsPercentage(pr) == pr[2] > 0 /\ 0 <= pr[1] /\ pr[1] <= 100 * pr[2]

\* C7: every value passed to the progress callback, in the pool path and in
\* the sequential fallback, is a percentage within [0, 100].
C7_ProgressWithinPercent ==
    \A r \in Runs :
        \A j \in DOMAIN run[r].progress : IsPercentage(run[r].progress[j])

\* progress was reported by a completed chunk and then by the fallback
C7_Witness ==
    /\ run[1].path = "fallback"
    /\ run[1].chunk_idx >= 1
    /\ run[1].i > FALLBACK_REPORT_EVERY
    /\ Len(run[1].progress) >= 3

\* the chunks actually dispatched for a grid of n times
ChunksDispatched(n) == (n + CHUNK_SIZE - 1) \div CHUNK_SIZE

\* C8: in the pool path, after the j-th of the N chunks actually dispatched
\* completes, the callback is invoked with 100*j/N; after the last chunk the
\* value is 100, for every grid length, multiples of CHUNK_SIZE included.
C8_ProgressIsShareOfChunks ==
    \A r \in Runs :
        (run[r].path = "pool" /\ Len(run[r].progress) > 0) =>
            LET j == Len(run[r].progress)
                pr == run[r].progress[j]
                N == ChunksDispatched(Len(run[r].args_list))
            IN  /\ pr[1] * N = 100 * j * pr[2]
                /\ Returned(r) => pr[1] = 100 * pr[2]

\* the half-mmHg span of the bin centres that contributed to the fit
SpanMin(V) == SetMin({BinCenter(i) : i \in V})
SpanMax(V) == SetMax({BinCenter(i) : i \in V})

\* C9: every retained CurveFit record has a strictly positive leading
\* coefficient, a candidate within [40, 90] mmHg and a weight above 1e-6;
\* an attempt violating any of the three yields no record.
C9_RetainedFitInvariant ==
    /\ \A k \in DOMAIN fit.out :
          /\ fit.out[k].coeffs[1] > 0
          /\ InBand(fit.out[k].mapopt)
          /\ ~IsNaN(fit.out[k].weight) /\ fit.out[k].weight > WEIGHT_MIN
    /\ (fit.pc = "done" /\ fit.polyfit = "ok") =>
          ((\/ fit.coeffs[1] <= 0
            \/ ~InBand(fit.mapopt)
            \/ IsNaN(fit.weight)
            \/ fit.weight <= WEIGHT_MIN) => fit.out = << >>)

\* a record was retained with the smallest weight above the threshold's scale
C9_Witness ==
    /\ fit.pc = "done"
    /\ fit.out # << >>
    /\ fit.out[1].r2 = 1
    /\ fit.out[1].nadir_cox = 0 - 999

\* C10: the candidate of an accepted CurveFit lies within the closed span of
\* the bin centres that contributed to the fit, and within [40, 90] mmHg.
C10_CandidateWithinSpan ==
    \A k \in DOMAIN fit.out :
        /\ RatLe(RatOfInt(SpanMin(fit.out[k].valid)), fit.out[k].mapopt)
        /\ RatLe(fit.out[k].mapopt, RatOfInt(SpanMax(fit.out[k].valid)))
        /\ InBand(fit.out[k].mapopt)

\* an accepted fit whose vertex lay beyond the span and was clamped to its end
C10_Witness ==
    /\ fit.out # << >>
    /\ ~RatLe(Vertex(fit.out[1].coeffs[1], fit.out[1].coeffs[2]),
              RatOfInt(SpanMax(fit.out[1].valid)))
    /\ fit.out[1].mapopt = RatOfInt(SpanMax(fit.out[1].valid))

\* C11: the weight computed by _calculate_weight is a number >= 0, for every
\* nadir correlation and every R2 it is called with.
C11_WeightNonNegative ==
    ~IsNaN(fit.weight) /\ fit.weight >= 0

\* C12: for a nadir correlation above COX_WEIGHT_THRESHOLD the weight computed
\* is 0 whatever R2 is, and the attempt yields no record.
C12_HighNadirWeightZero ==
    (fit.pc = "done" /\ ~IsNaN(fit.nadir_cox) /\ fit.nadir_cox > COX_WEIGHT_THRESHOLD) =>
        /\ fit.weight = 0
        /\ fit.out = << >>

\* the combinations of a call whose attempt yields a record
AcceptedCombos ==
    {c \in 1..ComboCount :
        CalculateSingleFit(point.elapsed, Combo(c), Library(point.prof, Combo(c))) # << >>}

\* the record of an accepted combination
AcceptedFit(c) ==
    CalculateSingleFit(point.elapsed, Combo(c), Library(point.prof, Combo(c)))[1]

\* the accepted records in the order of the sweep
AcceptedFits ==
    [i \in 1..Cardinality(AcceptedCombos) |->
        AcceptedFit(CHOOSE c \in AcceptedCombos :
                        Cardinality({x \in AcceptedCombos : x < c}) = i - 1)]

RECURSIVE SumOver(_, _)
\* the sum of term[c] over the combinations c in S
SumOver(S, term) ==
    IF S = {} THEN 0
    ELSE LET c == CHOOSE x \in S : TRUE IN term[c] + SumOver(S \ {c}, term)

\* sum(candidate * weight) / sum(weight) over the accepted combinations
AcceptedMean ==
    LET A == AcceptedCombos
        cw == [c \in A |-> RatScale(AcceptedFit(c).mapopt) * AcceptedFit(c).weight]
        w == [c \in A |-> AcceptedFit(c).weight]
    IN  << SumOver(A, cw), CandidateDen * SumOver(A, w) >>

\* C13: _process_time_point returns the weighted mean over exactly the fits
\* accepted among the ComboCount combinations together with their records, or
\* NaN with an empty list when none was accepted; the list is empty exactly
\* when the estimate is NaN and holds at most ComboCount records.
C13_PointIsWeightedMeanOfAccepted ==
    point.pc = "done" =>
        /\ point.ret.local_fits = AcceptedFits
        /\ point.ret.weighted_mapopt =
              IF AcceptedCombos = {} THEN NaNRat ELSE AcceptedMean
        /\ (point.ret.local_fits = << >>) <=> IsNaNRat(point.ret.weighted_mapopt)
        /\ Len(point.ret.local_fits) <= ComboCount
        /\ ComboCount = Cardinality(COX_WINDOWS_MIN) * Cardinality(HISTORY_WINDOWS_HR)

\* a call that accepted some combinations and rejected others, the accepted
\* ones with different candidates and different weights
C13_Witness ==
    /\ point.pc = "done"
    /\ Len(point.ret.local_fits) > 1
    /\ Len(point.ret.local_fits) < ComboCount
    /\ \E i, j \in DOMAIN point.ret.local_fits :
          /\ point.ret.local_fits[i].mapopt # point.ret.local_fits[j].mapopt
          /\ point.ret.local_fits[i].weight # point.ret.local_fits[j].weight

\* the grid points whose time lies within the range of the last query
QueriedSamples ==
    {i \in DOMAIN burden.tv :
        burden.last.t_start_hr <= burden.tv[i] /\ burden.tv[i] <= burden.last.t_end_hr}

\* the interpolated MAP lies outside [MAPopt - 5, MAPopt + 5] at grid point i
OutsideBand(i) ==
    \/ burden.map_interp[i] > burden.mapopt_filled[i] + BURDEN_BOUNDS
    \/ burden.map_interp[i] < burden.mapopt_filled[i] - BURDEN_BOUNDS

IsZeroPct(v) == v[1] = 0

\* C14: if the interpolated MAP equals MAPopt at every sample of the queried
\* range, the query returns time_burden 0 and area_burden_ratio 0.
C14_OnTargetZeroBurden ==
    (/\ burden.last.made
     /\ \A i \in QueriedSamples : burden.map_interp[i] = burden.mapopt_filled[i]) =>
        /\ IsZeroPct(burden.last.res.time_burden)
        /\ IsZeroPct(burden.last.res.area_burden_ratio)

\* a range of several samples on target, in a series that leaves the band
\* elsewhere
C14_Witness ==
    /\ burden.last.made
    /\ Cardinality(QueriedSamples) >= 2
    /\ \A i \in QueriedSamples : burden.map_interp[i] = burden.mapopt_filled[i]
    /\ \E i \in DOMAIN burden.tv : OutsideBand(i)

\* the last query lies entirely before the first or after the last grid time
QueryOutsideSpan ==
    \/ /\ burden.last.t_start_hr < burden.tv[1]
       /\ burden.last.t_end_hr < burden.tv[1]
    \/ /\ burden.last.t_start_hr > burden.tv[Len(burden.tv)]
       /\ burden.last.t_end_hr > burden.tv[Len(burden.tv)]

\* C15: a query lying entirely before the first or entirely after the last
\* time of the series returns time_burden 0 and area_burden_ratio 0, and no
\* query on a series with samples raises once the arrays are set.
C15_OutsideSpanZeroBurden ==
    /\ (burden.tv # << >> /\ burden.last.made /\ QueryOutsideSpan) =>
          /\ IsZeroPct(burden.last.res.time_burden)
          /\ IsZeroPct(burden.last.res.area_burden_ratio)
    /\ burden.pc = "raised" => (burden.raised_at = "new" \/ burden.tv = << >>)

\* a range after the last grid time of a series that is outside its band at
\* every sample
C15_Witness ==
    /\ burden.last.made
    /\ burden.last.t_start_hr > burden.tv[Len(burden.tv)]
    /\ burden.last.t_end_hr > burden.last.t_start_hr
    /\ Len(burden.tv) >= 2
    /\ \A i \in DOMAIN burden.tv : OutsideBand(i)

\* C16: a query with start >= end after clamping to the span of the series,
\* or whose range holds no sample, returns time_burden 0 and
\* area_burden_ratio 0.
C16_InvalidRangeZeroBurden ==
    (/\ burden.tv # << >>
     /\ burden.last.made
     /\ \/ ClampStart(burden.tv, burden.last.t_start_hr)
             >= ClampEnd(burden.tv, burden.last.t_end_hr)
        \/ QueriedSamples = {}) =>
        /\ IsZeroPct(burden.last.res.time_burden)
        /\ IsZeroPct(burden.last.res.area_burden_ratio)

\* the interpolated MAP is outside the band at every sample of the range
OutsideEverywhere ==
    /\ burden.last.made
    /\ QueriedSamples # {}
    /\ \A i \in QueriedSamples : OutsideBand(i)

IsFullPct(v) == v[1] = 100 * v[2]

\* C17 as stated: if MAP lies outside the band at every sample of a range
\* with at least one sample, time_burden is 100 and area_burden_ratio > 0.
C17_OutsideEverywhereFullBurden ==
    OutsideEverywhere =>
        /\ IsFullPct(burden.last.res.time_burden)
        /\ burden.last.res.area_burden_ratio[1] > 0

\* C17: if MAP lies outside the band at every sample of a queried range,
\* time_burden is 100; area_burden_ratio is > 0 when the range holds at least
\* two samples and 0 when it holds one.
C17_OutsideEverywhereFullBurdenOverInterval ==
    OutsideEverywhere =>
        /\ IsFullPct(burden.last.res.time_burden)
        /\ Cardinality(QueriedSamples) >= 2 =>
              burden.last.res.area_burden_ratio[1] > 0
        /\ Cardinality(QueriedSamples) = 1 =>
              IsZeroPct(burden.last.res.area_burden_ratio)

\* a range of several samples, all outside the band, in a series that has a
\* sample on target elsewhere
C17_Witness ==
    /\ OutsideEverywhere
    /\ Cardinality(QueriedSamples) >= 2
    /\ \E i \in DOMAIN burden.tv : ~OutsideBand(i)

\* C18: no query writes a stored array, get_deviation_statistics returns the
\* statistics of the full series whatever was queried before, and a repeated
\* query returns the same BurdenResult.
C18_QueriesAreStateless ==
    /\ [](burden.stats # << >> =>
            burden.stats[1] = GetDeviationStatistics(
                CalculateDeviationAndBurden(burden.map_interp, burden.mapopt_filled)))
    /\ [][burden.pc = "ready" => burden'.calc = burden.calc]_vars
    /\ [][burden'.repeated => burden'.last.res = burden.last.res]_vars

\* statistics, a sliding-window sweep and a repeated query with a nonzero
\* burden, on one calculator
C18_Witness ==
    /\ burden.repeated
    /\ burden.stats # << >>
    /\ burden.over # << >>
    /\ ~IsZeroPct(burden.last.res.time_burden)
    /\ Cardinality(QueriedSamples) < Len(burden.tv)

\* C19: for every correlation r strictly within the clip bound the round
\* trip inverse_fisher_transform(fisher_transform(r)) is r, and for r on or
\* beyond the bound it is the bound with the sign of r.
C19_FisherRoundTrip ==
    (fisher.pc = "back" /\ ~IsNaN(fisher.r)) =>
        LET expected == IF fisher.r >= FISHER_BOUNDS THEN FISHER_BOUNDS
                        ELSE IF fisher.r <= 0 - FISHER_BOUNDS THEN 0 - FISHER_BOUNDS
                        ELSE fisher.r
        IN  /\ ~IsNaNRat(fisher.back)
            /\ fisher.back[2] > 0
            /\ fisher.back[1] * Unit = expected * fisher.back[2]

\* a correlation of -1 has come back as -0.999
C19_Witness ==
    /\ fisher.pc = "back"
    /\ fisher.r = 0 - Unit
    /\ fisher.back[1] * Unit = (0 - FISHER_BOUNDS) * fisher.back[2]

\* C20: a signal whose first and last sample times coincide has an empty
\* TimeGrid, and calculate_mapopt_series does not return for it.
C20_EmptyGridDoesNotReturn ==
    \A r \in Runs : run[r].pc = "done" => run[r].data.n > 0

\* C21: once the pool has failed after some chunks were stored, the fallback
\* computes and writes only the evaluation times whose result is not stored
\* yet: no iteration of the fallback loop writes a slot written before.
C21_FallbackComputesOnlyRemaining ==
    [][\A r \in Runs :
          (run[r].pc = "L124" /\ run'[r].i = run[r].i + 1) =>
              run[r].slot_src[run[r].i + 1] = {}]_vars

\* the chunk a position of args_list belongs to: CHUNK_SIZE consecutive indices
ChunkOf(p) == (p - 1) \div CHUNK_SIZE

\* C22: in the pool path the chunks hold at most CHUNK_SIZE consecutive grid
\* indices and partition the grid, they are dispatched in increasing order,
\* and whenever progress has been reported for a chunk every result of that
\* chunk and of the earlier ones is stored and nothing of a later chunk has
\* been dispatched.
C22_ChunkIsUnitOfProgress ==
    \A r \in Runs :
        LET rec == run[r]
            n == Len(rec.args_list)
            c == rec.chunk_idx
            disp == rec.inflight \cup DOMAIN rec.results
        IN  rec.path = "pool" =>
              /\ Len(rec.progress) = c
              /\ \A s \in DOMAIN rec.slot_src :
                    (rec.slot_src[s] # {}) <=> (ChunkOf(s) < c)
              /\ \A p \in disp : ChunkOf(p) = c
              /\ rec.pc = "L100" =>
                    /\ disp = {}
                    /\ \A k \in 0..(rec.total_chunks - 1) :
                          /\ Cardinality(ChunkPositions(k, n)) <= CHUNK_SIZE
                          /\ ChunkPositions(k, n) = {p \in 1..n : ChunkOf(p) = k}

\* progress has been reported for the second full chunk of a grid that has a
\* shorter third one, with two workers
C22_Witness ==
    /\ run[1].path = "pool"
    /\ run[1].pc = "L100"
    /\ run[1].chunk_idx = 2
    /\ run[1].num_cores = 2
    /\ Len(run[1].args_list) > 2 * CHUNK_SIZE
    /\ Len(run[1].args_list) < 3 * CHUNK_SIZE

\* C28: within one run the values passed to the progress callback never
\* decrease, also when the fallback takes over after chunks have reported.
C28_ProgressNonDecreasing ==
    \A r \in Runs :
        \A j \in 1..(Len(run[r].progress) - 1) :
            RatLe(run[r].progress[j], run[r].progress[j + 1])

\* tick t holds a raw sample of the signal of the collection
IsSample(t) ==
    LET sig == collect.sig
        t_now == CollectNow(collect)
    IN  /\ t >= 0
        /\ t % sig.period = 0
        /\ sig.dropout = "recent" => ~(t_now - 30 * TicksPerMinute <= t /\ t < t_now)
        /\ sig.dropout = "old" => ~(1 <= t /\ t < t_now - 50 * TicksPerMinute)

\* the raw samples with a <= time < b and time < t_now
RawSamples(a, b) ==
    Cardinality({t \in a..(Min(b, CollectNow(collect)) - 1) : IsSample(t)})

\* the start of the sub-window of step s: steps of half a window from the
\* start of the lookback
StepStart(s) ==
    CollectNow(collect) - TicksPerMinute * 60 * collect.hist_hr
        + s * ((TicksPerMinute * collect.win_min) \div 2)

\* C23: a combination yields a CurveFit only if the lookback starts at or
\* after the first sample, holds at least 60 raw samples, every observation
\* collected comes from a sub-window (stepped by W/2) with at least 10 samples
\* and a defined correlation, and at least 5 observations were collected;
\* otherwise it ends without a record.
C23_FitNeedsEnoughData ==
    /\ collect.pc \in {"off", "L178", "L153", "L164", "L191", "done"}
    /\ collect.out # << >> =>
          LET t_now == CollectNow(collect)
              t_start == t_now - TicksPerMinute * 60 * collect.hist_hr
          IN  /\ t_start >= 0
              /\ RawSamples(t_start, t_now) >= MIN_LOOKBACK_SAMPLES
              /\ \A s \in collect.steps :
                    /\ s >= 0
                    /\ RawSamples(StepStart(s), StepStart(s) + TicksPerMinute * collect.win_min)
                          >= MIN_DATA_POINTS
                    /\ collect.sig.flat # "all"
                    /\ collect.sig.flat = "early" =>
                          StepStart(s) + TicksPerMinute * collect.win_min
                              > t_now - 45 * TicksPerMinute
              /\ Cardinality(collect.steps) >= MIN_OBSERVATIONS

\* a record from a signal with a dropout: some sub-windows were skipped
C23_Witness ==
    /\ collect.out # << >>
    /\ collect.sig.dropout # "none"
    /\ collect.steps # {}
    /\ Cardinality(collect.steps) < NumSteps(collect.win_min, collect.hist_hr)

\* C26 as stated: at most floor(2(H-W)/W)+1 observations are collected, and
\* a combination yields a record only if H >= 3W.
C26_ObservationsBoundedByFloor ==
    LET w == collect.win_min
        h == 60 * collect.hist_hr
    IN  collect.win_min > 0 =>
          /\ Cardinality(collect.steps) <= ((2 * (h - w)) \div w) + 1
          /\ collect.out # << >> => h >= 3 * w

\* C26: at most int(2(H-W)/W)+1 observations are collected, the quotient
\* truncated towards zero (one sub-window for W = 90 minutes, H = 1 hour,
\* none for W = 120 minutes, H = 1 hour), and a combination yields a record
\* only if H >= 3W, whatever the signal.
C26_ObservationsBoundedByTruncation ==
    LET w == collect.win_min
        h == 60 * collect.hist_hr
    IN  collect.win_min > 0 =>
          /\ Cardinality(collect.steps) <= Trunc(2 * (h - w), w) + 1
          /\ collect.out # << >> => h >= 3 * w

\* the 90-minute window with one hour of history has collected its one
\* observation and yields no record
C26_Witness ==
    /\ collect.pc = "done"
    /\ collect.win_min > 60 * collect.hist_hr
    /\ Cardinality(collect.steps) = 1
    /\ collect.out = << >>

RECURSIVE Gcd(_, _)
Gcd(a, b) == IF b = 0 THEN a ELSE Gcd(b, a % b)

\* a fraction << num, den >>, num > 0 and den > 0, in lowest terms
RatReduce(x) == << x[1] \div Gcd(x[1], x[2]), x[2] \div Gcd(x[1], x[2]) >>

RatTimes(x, y) == RatReduce(<< x[1] * y[1], x[2] * y[2] >>)

RECURSIVE RatPow(_, _)
RatPow(x, n) == IF n = 0 THEN << 1, 1 >> ELSE RatTimes(RatReduce(x), RatPow(x, n - 1))

RECURSIVE FisherProduct(_, _)
\* the product over the observations i of I of the fraction under the
\* logarithm of the transform of cox_vals[i]: the sum of their transforms is
\* half its logarithm
FisherProduct(cox_vals, I) ==
    IF I = {} THEN << 1, 1 >>
    ELSE LET i == CHOOSE j \in I : TRUE
         IN  RatTimes(RatReduce(FisherTransform(cox_vals[i])),
                      FisherProduct(cox_vals, I \ {i}))

\* the observations whose mean MAP falls in bin b
ObservationsOfBin(b) ==
    {i \in DOMAIN binned.map_vals :
        /\ MAP_BIN_FIRST + MAP_BIN_WIDTH * (b - 1) <= binned.map_vals[i]
        /\ binned.map_vals[i] < MAP_BIN_FIRST + MAP_BIN_WIDTH * b}

\* C24: for each of the MAP_BIN_COUNT bins the value used by the fit is the
\* mean of the Fisher-transformed correlations of the observations whose mean
\* MAP falls in the bin (n times the value is the sum of the n transforms),
\* and NaN for a bin with no observation; the fit is reached with
\* MIN_OBSERVATIONS observations or more.
C24_BinIsMeanOfTransformed ==
    (binned.pc = "done" /\ Len(binned.cox_vals) >= MIN_OBSERVATIONS) =>
        \A b \in 1..MAP_BIN_COUNT :
            LET I == ObservationsOfBin(b)
                z == binned.binned_cox_fisher[b]
            IN  IF I = {} THEN IsNaNRat(z)
                ELSE /\ ~IsNaNRat(z)
                     /\ RatPow(z, Cardinality(I)) = FisherProduct(binned.cox_vals, I)

\* the weights of the records returned by a call
RetainedWeights == [i \in DOMAIN point.ret.local_fits |-> point.ret.local_fits[i].weight]

\* C25: whenever the raw estimate of an evaluation time is defined, the sum
\* of the retained weights is strictly positive and the estimate lies between
\* the smallest and the largest retained candidate, hence within
\* [MAP_OPT_MIN, MAP_OPT_MAX].
C25_EstimateWithinRetainedCandidates ==
    (point.pc = "done" /\ ~IsNaNRat(point.ret.weighted_mapopt)) =>
        LET fits == point.ret.local_fits
            est == point.ret.weighted_mapopt
        IN  /\ SumSeq(RetainedWeights, Len(RetainedWeights)) > 0
            /\ est[2] > 0
            /\ \A i \in DOMAIN fits : fits[i].weight > 0
            /\ \E i \in DOMAIN fits : RatLe(fits[i].mapopt, est)
            /\ \E i \in DOMAIN fits : RatLe(est, fits[i].mapopt)
            /\ 2 * MAP_OPT_MIN * est[2] <= est[1]
            /\ est[1] <= 2 * MAP_OPT_MAX * est[2]

\* an estimate strictly between two retained candidates, one of them on the
\* upper edge of the band, from a sweep that rejected other combinations
C25_Witness ==
    /\ point.pc = "done"
    /\ ~IsNaNRat(point.ret.weighted_mapopt)
    /\ Len(point.ret.local_fits) < Cardinality({c \in 1..ComboCount :
                                        point.elapsed - 60 * Combo(c).hist_hr >= 0})
    /\ \E i, j \in DOMAIN point.ret.local_fits :
          /\ RatLe(RatOfInt(2 * MAP_OPT_MAX), point.ret.local_fits[i].mapopt)
          /\ ~RatLe(point.ret.weighted_mapopt, point.ret.local_fits[j].mapopt)
          /\ ~RatLe(point.ret.local_fits[i].mapopt, point.ret.weighted_mapopt)

\* C27 as stated: for a fixed R2 > 0 the weight is non-increasing in the
\* nadir correlation over [-1, 1], the boundary at 0 included.
C27_WeightNonIncreasingInNadir ==
    weighing.pc = "done" => weighing.w_lo >= weighing.w_hi

\* C27: for a fixed R2 > 0 the weight is non-increasing in the nadir
\* correlation on [-1, 0) and on [0, 1] separately; it is largest (R2) at
\* nadir correlation 0, so that a negative nadir correlation above -1 weighs
\* strictly less than the nadir correlation 0.
C27_WeightNonIncreasingOnEachBranch ==
    weighing.pc = "done" =>
        /\ ((weighing.lo < 0) <=> (weighing.hi < 0)) => weighing.w_lo >= weighing.w_hi
        /\ weighing.w_lo >= 0 /\ weighing.w_hi >= 0
        /\ weighing.w_lo <= 3 * weighing.r2 * Unit
        /\ weighing.hi = 0 => weighing.w_hi = 3 * weighing.r2 * Unit
        /\ (weighing.lo < 0 /\ weighing.lo > 0 - Unit /\ weighing.hi = 0) =>
              weighing.w_lo < weighing.w_hi

\* the two sides of the boundary: nadir correlations -0.001 and 0
C27_Witness ==
    /\ weighing.pc = "done"
    /\ weighing.lo = 0 - 1
    /\ weighing.hi = 0
    /\ weighing.w_lo < weighing.w_hi

\* C29: before calculate_deviation_and_burden, calculate_burden_metrics and
\* calculate_burden_over_time raise the ValueError and get_deviation_statistics
\* returns an empty result, each leaving the calculator as __init__ made it;
\* once the arrays are set no call raises that error, whatever the range.
C29_ArraysDemandedBeforeQueries ==
    /\ [](burden.pc = "new" =>
            /\ burden.calc = NoCalc
            /\ burden.stats = << >>
            /\ ~burden.last.made
            /\ burden.over = << >>)
    /\ [](burden.pc = "raised" =>
            /\ (burden.error = MustCallFirst) <=> (burden.raised_at = "new")
            /\ burden.raised_at = "new" =>
                  /\ burden.raised_by \in {"calculate_burden_metrics",
                                           "calculate_burden_over_time"}
                  /\ burden.calc = NoCalc
                  /\ burden.stats = << >>
                  /\ ~burden.last.made
                  /\ burden.over = << >>)
    /\ [][(burden.pc = "new" /\ burden'.pc \notin {"new", "ready"}) =>
            /\ burden'.pc = "raised"
            /\ burden'.error = MustCallFirst
            /\ burden'.calc = burden.calc]_vars
    /\ [][(burden.pc = "ready" /\ burden.tv # << >>) => burden'.pc = "ready"]_vars

\* calculate_burden_over_time has raised on a new calculator for a series
\* with samples
C29_Witness ==
    /\ burden.pc = "raised"
    /\ burden.raised_at = "new"
    /\ burden.raised_by = "calculate_burden_over_time"
    /\ burden.error = MustCallFirst
    /\ Len(burden.tv) >= 2

\* the window starts time_vector[0] + i * step_hours that do not exceed
\* time_vector[-1] - window_hours, for step_hours > 0
WindowStarts ==
    {t \in overtime.tv[1]..(overtime.tv[Len(overtime.tv)] - overtime.window_hours) :
        (t - overtime.tv[1]) % overtime.step_hours = 0}

\* C30: calculate_burden_over_time terminates for every time grid, window
\* and step it is called with, and returns two arrays of equal length with
\* one time_burden within [0, 100] for each window start
\* time_vector[0] + i * step_hours that does not exceed
\* time_vector[-1] - window_hours.
C30_OverTimeTerminates ==
    /\ <>(overtime.pc \in {"done", "raised"})
    /\ [](overtime.pc = "done" =>
            /\ Len(overtime.time_centers) = Len(overtime.burden_values)
            /\ ~overtime.more
            /\ overtime.step_hours > 0 =>
                  Len(overtime.time_centers) = Cardinality(WindowStarts)
            /\ \A j \in DOMAIN overtime.burden_values :
                  IsPercentage(overtime.burden_values[j]))

====
